---- MODULE Spec2Model ----
(***************************************************************************)
(* Settings store (settings.h, settings.cpp), settings menu                *)
(* (settings_ui.cpp) and configuration loader (ConfigLoader.h,             *)
(* ConfigLoader.cpp) of the T-LoRa Pager terminal.                         *)
(*                                                                         *)
(* Settings_t is modelled byte for byte: every uint8_t and bool is a byte  *)
(* 0..255, a char array is the sequence of its bytes with the trailing     *)
(* zero bytes left off, a 32-bit field is its four bytes in little-endian  *)
(* order, the port is its 16-bit value.  Two records are equal exactly     *)
(* when the two structs are byte-equal.                                    *)
(***************************************************************************)
EXTENDS Integers, Sequences, FiniteSets, TLC

VARIABLES
    settings,            \* Settings_t settings (working record)
    store,               \* Preferences key "settings": [len, data]
    writes,              \* number of prefs.putBytes calls so far
    diag,                \* last diagnostic printed by settingsLoad
    currentMenu,         \* MenuState_t currentMenu
    selectedIndex,
    scrollOffset,
    scanSSIDs,           \* scanSSIDs[0 .. scanCount-1]
    scanCount,
    scanning,
    editingNetworkIndex,
    editingField,
    editingRemoteServer,
    serverEditField,
    wifiSSID,            \* C string held in wifiSSID[]
    wifiPass,            \* C string held in wifiPass[]
    inputTA,             \* TRUE iff inputTA != NULL
    inputText,           \* text of the textarea inputTA points at
    drawn,               \* the screen last built on the display
    drawnSaved,          \* at the last list redraw: store byte-equal to settings
    wifiScan,            \* WiFi driver: "idle", or "running" an asynchronous scan
    keys,                \* key presses taken by the open text capture
    configLoader,        \* ConfigLoader configLoader: [config, loaded, nvsOpen]
    nvs,                 \* Preferences namespace "tlora_cfg"
    fs,                  \* LittleFS: the documents, by path
    ret                  \* what the last call of the loader returned

menuVars == <<settings, store, writes, diag, currentMenu, selectedIndex, scrollOffset,
              scanSSIDs, scanCount, scanning, editingNetworkIndex, editingField,
              editingRemoteServer, serverEditField, wifiSSID, wifiPass, inputTA,
              inputText, drawn, drawnSaved, wifiScan, keys>>

cfgVars == <<configLoader, nvs, fs, ret>>

vars == <<menuVars, cfgVars>>

uiVars == <<currentMenu, selectedIndex, scrollOffset, scanSSIDs, scanCount, scanning,
            editingNetworkIndex, editingField, editingRemoteServer, serverEditField,
            wifiSSID, wifiPass, inputTA, inputText, drawn, drawnSaved, wifiScan, keys>>

(***************************************************************************)
(* Bounds of the model.                                                    *)
(***************************************************************************)
\* prefs.putBytes calls explored (the first one is the save of first boot)
MaxWrites == 2
\* key presses explored inside one text capture
MaxKeys == 1
\* networks a scan reports
MaxFound == 2
\* prefs.putBytes calls explored when the network list is edited on its own
MaxListWrites == 4

(***************************************************************************)
(* settings.h                                                              *)
(***************************************************************************)
MAX_WIFI_NETWORKS == 5
MAX_SSID_LEN == 32
MAX_PASS_LEN == 64
MAX_HOST_LEN == 64
MAX_PATH_LEN == 32
MAX_USER_LEN == 32
SETTINGS_VERSION == 12
THEME_COUNT == 5
MAX_SCAN_RESULTS == 20
maxVisibleItems == 5

\* Layout of WiFiNetwork_t: ssid, password, enabled (alignment 1).
SizeofWiFiNetwork == MAX_SSID_LEN + MAX_PASS_LEN + 1

\* Layout of ServerConfig_t (alignment 2, no padding).
SrvOffPort == MAX_HOST_LEN
SrvOffPath == SrvOffPort + 2
SrvOffUsername == SrvOffPath + MAX_PATH_LEN
SrvOffPassword == SrvOffUsername + MAX_USER_LEN
SrvOffUseSSL == SrvOffPassword + MAX_USER_LEN
SrvOffEnabled == SrvOffUseSSL + 1
SizeofServerConfig == SrvOffEnabled + 1

\* Layout of Settings_t (Theme_t is a 4-byte enum, uint32_t is 4-aligned).
OffVersion == 0
OffBrightness == 1
OffTheme == 4
OffWifiNetworks == OffTheme + 4
OffWifiNetworkCount == OffWifiNetworks + MAX_WIFI_NETWORKS * SizeofWiFiNetwork
OffWifiAutoConnect == OffWifiNetworkCount + 1
OffLocalServer == OffWifiAutoConnect + 2
OffRemoteServer == OffLocalServer + SizeofServerConfig
OffPreferRemote == OffRemoteServer + SizeofServerConfig
OffSoundEnabled == OffPreferRemote + 1
OffVolume == OffSoundEnabled + 1
OffHapticEnabled == OffVolume + 1
OffHapticIntensity == OffHapticEnabled + 1
OffChecksum == ((OffHapticIntensity + 1 + 3) \div 4) * 4
SizeofSettings == OffChecksum + 4

\* The padding bytes of Settings_t, in address order.
PadOffsets == <<OffBrightness + 1, OffBrightness + 2, OffWifiAutoConnect + 1,
                OffHapticIntensity + 1, OffHapticIntensity + 2, OffHapticIntensity + 3>>

(***************************************************************************)
(* Bytes, char arrays and C strings.                                       *)
(***************************************************************************)
Min(a, b) == IF a < b THEN a ELSE b
Max(a, b) == IF a > b THEN a ELSE b

\* bool b; !b
Not(b) == IF b = 0 THEN 1 ELSE 0

RECURSIVE Trim(_)
\* an array's bytes without its trailing zero bytes
Trim(s) == IF s # <<>> /\ s[Len(s)] = 0 THEN Trim(SubSeq(s, 1, Len(s) - 1)) ELSE s

\* byte k (from 0) of the array held as s
At(s, k) == IF k < Len(s) THEN s[k + 1] ELSE 0

\* the array held as s with byte k (from 0) set to v
Put(s, k, v) ==
    Trim([i \in 1..Max(Len(s), k + 1) |-> IF i = k + 1 THEN v ELSE At(s, i - 1)])

RECURSIVE strlen(_)
strlen(s) == IF s = <<>> \/ s[1] = 0 THEN 0 ELSE 1 + strlen(Tail(s))

\* the C string an array holds: its bytes up to the first zero byte
CStr(s) == SubSeq(s, 1, strlen(s))

\* strncpy(dst, src, n): n bytes are written, src and then zero bytes
strncpy(dst, src, n) ==
    Trim([i \in 1..Max(Len(dst), Min(n, Len(src))) |->
             IF i <= n THEN At(src, i - 1) ELSE At(dst, i - 1)])

\* strcpy(dst, src): the string and its terminator are written
strcpy(dst, src) ==
    Trim([i \in 1..Max(Len(dst), Len(src)) |->
             IF i <= Len(src) + 1 THEN At(src, i - 1) ELSE At(dst, i - 1)])

RECURSIVE XorBits(_, _, _)
XorBits(a, b, n) ==
    IF n = 0 THEN 0
    ELSE (IF (a % 2) = (b % 2) THEN 0 ELSE 1) + 2 * XorBits(a \div 2, b \div 2, n - 1)

\* bytewise exclusive or of two 32-bit values held as four bytes
Xor32(x, y) == [k \in 1..4 |-> XorBits(x[k], y[k], 8)]

\* the four little-endian bytes of n modulo 2^32
U32(n) == <<n % 256, (n \div 256) % 256, (n \div 65536) % 256, (n \div 16777216) % 256>>

\* 0xDEADBEEF
ChecksumKey == <<239, 190, 173, 222>>

RECURSIVE WSumTo(_, _, _)
WSumTo(s, off, k) == IF k = 0 THEN 0 ELSE s[k] * (off + k) + WSumTo(s, off, k - 1)

\* sum of data[i] * (i + 1) over the bytes s stored from offset off on
WSum(s, off) == WSumTo(s, off, Len(s))

RECURSIVE PadSum(_, _)
PadSum(pad, k) ==
    IF k = 0 THEN 0 ELSE pad[k] * (PadOffsets[k] + 1) + PadSum(pad, k - 1)

NetSum(n, off) ==
    WSum(n.ssid, off) + WSum(n.password, off + MAX_SSID_LEN)
        + WSum(<<n.enabled>>, off + MAX_SSID_LEN + MAX_PASS_LEN)

RECURSIVE NetsSum(_, _)
NetsSum(nets, k) ==
    IF k = 0 THEN 0
    ELSE NetSum(nets[k - 1], OffWifiNetworks + (k - 1) * SizeofWiFiNetwork)
             + NetsSum(nets, k - 1)

ServerSum(c, off) ==
    WSum(c.host, off) + WSum(<<c.port % 256, c.port \div 256>>, off + SrvOffPort)
        + WSum(c.path, off + SrvOffPath) + WSum(c.username, off + SrvOffUsername)
        + WSum(c.password, off + SrvOffPassword)
        + WSum(<<c.useSSL, c.enabled>>, off + SrvOffUseSSL)

\* ByteSum with the padding bytes left out
ByteSumNamedFields(s) ==
    WSum(<<s.version, s.brightness>>, OffVersion)
        + WSum(s.theme, OffTheme) + NetsSum(s.wifiNetworks, MAX_WIFI_NETWORKS)
        + WSum(<<s.wifiNetworkCount, s.wifiAutoConnect>>, OffWifiNetworkCount)
        + ServerSum(s.localServer, OffLocalServer)
        + ServerSum(s.remoteServer, OffRemoteServer)
        + WSum(<<s.preferRemote, s.soundEnabled, s.volume, s.hapticEnabled,
                 s.hapticIntensity>>, OffPreferRemote)

\* the loop of settingsCalculateChecksum: every byte before the checksum field
\* (at most 255 * 832 * 833 / 2, so the 32-bit sum never wraps)
ByteSum(s) ==
    WSum(<<s.version, s.brightness>>, OffVersion) + PadSum(s.pad, Len(PadOffsets))
        + WSum(s.theme, OffTheme) + NetsSum(s.wifiNetworks, MAX_WIFI_NETWORKS)
        + WSum(<<s.wifiNetworkCount, s.wifiAutoConnect>>, OffWifiNetworkCount)
        + ServerSum(s.localServer, OffLocalServer)
        + ServerSum(s.remoteServer, OffRemoteServer)
        + WSum(<<s.preferRemote, s.soundEnabled, s.volume, s.hapticEnabled,
                 s.hapticIntensity>>, OffPreferRemote)

(***************************************************************************)
(* The struct as raw memory: byte off of the bytes of settings.            *)
(***************************************************************************)
NetByte(n, r) ==
    IF r < MAX_SSID_LEN THEN At(n.ssid, r)
    ELSE IF r < MAX_SSID_LEN + MAX_PASS_LEN THEN At(n.password, r - MAX_SSID_LEN)
    ELSE n.enabled

ServerByte(c, r) ==
    IF r < SrvOffPort THEN At(c.host, r)
    ELSE IF r = SrvOffPort THEN c.port % 256
    ELSE IF r = SrvOffPort + 1 THEN c.port \div 256
    ELSE IF r < SrvOffUsername THEN At(c.path, r - SrvOffPath)
    ELSE IF r < SrvOffPassword THEN At(c.username, r - SrvOffUsername)
    ELSE IF r < SrvOffUseSSL THEN At(c.password, r - SrvOffPassword)
    ELSE IF r = SrvOffUseSSL THEN c.useSSL
    ELSE c.enabled

GetByte(s, off) ==
    IF off = OffVersion THEN s.version
    ELSE IF off = OffBrightness THEN s.brightness
    ELSE IF off < OffTheme THEN s.pad[off - OffBrightness]
    ELSE IF off < OffWifiNetworks THEN s.theme[off - OffTheme + 1]
    ELSE IF off < OffWifiNetworkCount
    THEN NetByte(s.wifiNetworks[(off - OffWifiNetworks) \div SizeofWiFiNetwork],
                 (off - OffWifiNetworks) % SizeofWiFiNetwork)
    ELSE IF off = OffWifiNetworkCount THEN s.wifiNetworkCount
    ELSE IF off = OffWifiAutoConnect THEN s.wifiAutoConnect
    ELSE IF off < OffLocalServer THEN s.pad[3]
    ELSE IF off < OffRemoteServer THEN ServerByte(s.localServer, off - OffLocalServer)
    ELSE IF off < OffPreferRemote THEN ServerByte(s.remoteServer, off - OffRemoteServer)
    ELSE IF off = OffPreferRemote THEN s.preferRemote
    ELSE IF off = OffSoundEnabled THEN s.soundEnabled
    ELSE IF off = OffVolume THEN s.volume
    ELSE IF off = OffHapticEnabled THEN s.hapticEnabled
    ELSE IF off = OffHapticIntensity THEN s.hapticIntensity
    ELSE IF off < OffChecksum THEN s.pad[off - OffHapticIntensity + 3]
    ELSE s.checksum[off - OffChecksum + 1]

PokeNet(n, r, v) ==
    IF r < MAX_SSID_LEN THEN [n EXCEPT !.ssid = Put(n.ssid, r, v)]
    ELSE IF r < MAX_SSID_LEN + MAX_PASS_LEN
    THEN [n EXCEPT !.password = Put(n.password, r - MAX_SSID_LEN, v)]
    ELSE [n EXCEPT !.enabled = v]

PokeServer(c, r, v) ==
    IF r < SrvOffPort THEN [c EXCEPT !.host = Put(c.host, r, v)]
    ELSE IF r = SrvOffPort THEN [c EXCEPT !.port = (c.port \div 256) * 256 + v]
    ELSE IF r = SrvOffPort + 1 THEN [c EXCEPT !.port = v * 256 + (c.port % 256)]
    ELSE IF r < SrvOffUsername THEN [c EXCEPT !.path = Put(c.path, r - SrvOffPath, v)]
    ELSE IF r < SrvOffPassword
    THEN [c EXCEPT !.username = Put(c.username, r - SrvOffUsername, v)]
    ELSE IF r < SrvOffUseSSL
    THEN [c EXCEPT !.password = Put(c.password, r - SrvOffPassword, v)]
    ELSE IF r = SrvOffUseSSL THEN [c EXCEPT !.useSSL = v]
    ELSE [c EXCEPT !.enabled = v]

\* the struct with byte off set to v
PokeByte(s, off, v) ==
    IF off = OffVersion THEN [s EXCEPT !.version = v]
    ELSE IF off = OffBrightness THEN [s EXCEPT !.brightness = v]
    ELSE IF off < OffTheme THEN [s EXCEPT !.pad[off - OffBrightness] = v]
    ELSE IF off < OffWifiNetworks THEN [s EXCEPT !.theme[off - OffTheme + 1] = v]
    ELSE IF off < OffWifiNetworkCount
    THEN LET k == (off - OffWifiNetworks) \div SizeofWiFiNetwork
         IN [s EXCEPT !.wifiNetworks[k] =
                 PokeNet(s.wifiNetworks[k], (off - OffWifiNetworks) % SizeofWiFiNetwork, v)]
    ELSE IF off = OffWifiNetworkCount THEN [s EXCEPT !.wifiNetworkCount = v]
    ELSE IF off = OffWifiAutoConnect THEN [s EXCEPT !.wifiAutoConnect = v]
    ELSE IF off < OffLocalServer THEN [s EXCEPT !.pad[3] = v]
    ELSE IF off < OffRemoteServer
    THEN [s EXCEPT !.localServer = PokeServer(s.localServer, off - OffLocalServer, v)]
    ELSE IF off < OffPreferRemote
    THEN [s EXCEPT !.remoteServer = PokeServer(s.remoteServer, off - OffRemoteServer, v)]
    ELSE IF off = OffPreferRemote THEN [s EXCEPT !.preferRemote = v]
    ELSE IF off = OffSoundEnabled THEN [s EXCEPT !.soundEnabled = v]
    ELSE IF off = OffVolume THEN [s EXCEPT !.volume = v]
    ELSE IF off = OffHapticEnabled THEN [s EXCEPT !.hapticEnabled = v]
    ELSE IF off = OffHapticIntensity THEN [s EXCEPT !.hapticIntensity = v]
    ELSE IF off < OffChecksum THEN [s EXCEPT !.pad[off - OffHapticIntensity + 3] = v]
    ELSE [s EXCEPT !.checksum[off - OffChecksum + 1] = v]

\* the checksum with the loop run over the whole struct
ChecksumInclField(s) == Xor32(U32(ByteSum(s) + WSum(s.checksum, OffChecksum)), ChecksumKey)

settingsCalculateChecksum(s) == Xor32(U32(ByteSum(s)), ChecksumKey)

(***************************************************************************)
(* settingsReset, settingsSave, settingsLoad                               *)
(***************************************************************************)
ZeroNetwork == [ssid |-> <<>>, password |-> <<>>, enabled |-> 0]
ZeroServer == [host |-> <<>>, port |-> 0, path |-> <<>>, username |-> <<>>,
               password |-> <<>>, useSSL |-> 0, enabled |-> 0]

\* memset(&settings, 0, sizeof(Settings_t)); also the zero-initialised global
ZeroSettings ==
    [version |-> 0, brightness |-> 0, pad |-> <<0, 0, 0, 0, 0, 0>>, theme |-> U32(0),
     wifiNetworks |-> [i \in 0..(MAX_WIFI_NETWORKS - 1) |-> ZeroNetwork],
     wifiNetworkCount |-> 0, wifiAutoConnect |-> 0,
     localServer |-> ZeroServer, remoteServer |-> ZeroServer, preferRemote |-> 0,
     soundEnabled |-> 0, volume |-> 0, hapticEnabled |-> 0, hapticIntensity |-> 0,
     checksum |-> U32(0)]

DefaultSsid == <<65, 32, 38, 32, 65, 32, 43, 97, 32, 67, 97, 115, 97>>
DefaultWifiPass == <<65, 54, 57, 54, 57, 51, 57, 54, 57, 97>>
LocalHost == <<49, 57, 50, 46, 49, 54, 56, 46, 56, 46, 49, 52, 49>>
RemoteHost == <<49, 48, 48, 46, 49, 48, 55, 46, 50, 51, 57, 46, 49, 49>>
Archie == <<97, 114, 99, 104, 105, 101>>

DefaultServer(host) ==
    [host |-> strcpy(<<>>, host), port |-> 22, path |-> strcpy(<<>>, <<>>),
     username |-> strcpy(<<>>, Archie), password |-> strcpy(<<>>, Archie),
     useSSL |-> 0, enabled |-> 1]

ResetFields ==
    [ZeroSettings EXCEPT
        !.version = SETTINGS_VERSION,
        !.brightness = 200,
        !.theme = U32(0),
        !.wifiNetworkCount = 1,
        !.wifiNetworks[0] = [ssid |-> strcpy(<<>>, DefaultSsid),
                             password |-> strcpy(<<>>, DefaultWifiPass),
                             enabled |-> 1],
        !.wifiAutoConnect = 1,
        !.localServer = DefaultServer(LocalHost),
        !.remoteServer = DefaultServer(RemoteHost),
        !.preferRemote = 0,
        !.soundEnabled = 1,
        !.volume = 50,
        !.hapticEnabled = 1,
        !.hapticIntensity = 80]

\* settingsReset without the memset: the fields it does not assign keep their values
ResetNoMemset(old) ==
    LET fields == [old EXCEPT
                      !.version = SETTINGS_VERSION,
                      !.brightness = 200,
                      !.theme = U32(0),
                      !.wifiNetworkCount = 1,
                      !.wifiNetworks[0] =
                          [ssid |-> strcpy(old.wifiNetworks[0].ssid, DefaultSsid),
                           password |-> strcpy(old.wifiNetworks[0].password,
                                               DefaultWifiPass),
                           enabled |-> 1],
                      !.wifiAutoConnect = 1,
                      !.localServer = DefaultServer(LocalHost),
                      !.remoteServer = DefaultServer(RemoteHost),
                      !.preferRemote = 0,
                      !.soundEnabled = 1,
                      !.volume = 50,
                      !.hapticEnabled = 1,
                      !.hapticIntensity = 80]
    IN [fields EXCEPT !.checksum = settingsCalculateChecksum(fields)]

\* settingsReset(): the working record it leaves (the old one is overwritten)
settingsReset(old) ==
    [ResetFields EXCEPT !.checksum = settingsCalculateChecksum(ResetFields)]

\* the record settingsSave() stamps and writes
Stamp(s) == [s EXCEPT !.checksum = settingsCalculateChecksum(s)]

\* a stored blob of the record's size
Blob(s) == [len |-> SizeofSettings, data |-> s]

\* no value under the key: getBytesLength gives 0
NoBlob == [len |-> 0, data |-> ZeroSettings]

\* settingsSave without the stamp
SaveNoStamp(st) ==
    [st EXCEPT !.store = Blob(st.settings), !.writes = st.writes + 1]

\* settingsSave() on a state st with fields settings, store, writes
settingsSave(st) ==
    [st EXCEPT !.settings = Stamp(st.settings),
               !.store = Blob(Stamp(st.settings)),
               !.writes = st.writes + 1]

ResetAndSave(st, why) ==
    settingsSave([st EXCEPT !.settings = settingsReset(st.settings), !.diag = why])

\* settingsLoad without the checksum test
LoadNoChecksumCheck(st) ==
    IF st.store.len # SizeofSettings THEN ResetAndSave(st, "size")
    ELSE IF st.store.data.version # SETTINGS_VERSION
         THEN ResetAndSave([st EXCEPT !.settings = st.store.data], "version")
         ELSE [st EXCEPT !.settings = st.store.data, !.diag = "loaded"]

\* settingsLoad with the checksum validated before the version
LoadChecksumFirst(st) ==
    IF st.store.len # SizeofSettings THEN ResetAndSave(st, "size")
    ELSE IF settingsCalculateChecksum(st.store.data) # st.store.data.checksum
         THEN ResetAndSave([st EXCEPT !.settings = st.store.data], "checksum")
         ELSE IF st.store.data.version # SETTINGS_VERSION
              THEN ResetAndSave([st EXCEPT !.settings = st.store.data], "version")
              ELSE [st EXCEPT !.settings = st.store.data, !.diag = "loaded"]

\* settingsLoad()
settingsLoad(st) ==
    IF st.store.len # SizeofSettings THEN ResetAndSave(st, "size")
    ELSE IF st.store.data.version # SETTINGS_VERSION
         THEN ResetAndSave([st EXCEPT !.settings = st.store.data], "version")
         ELSE IF settingsCalculateChecksum(st.store.data) # st.store.data.checksum
              THEN ResetAndSave([st EXCEPT !.settings = st.store.data], "checksum")
              ELSE [st EXCEPT !.settings = st.store.data, !.diag = "loaded"]

\* settingsInit()
settingsInit(st) == settingsLoad(st)

(***************************************************************************)
(* The whole program state as one record, so that a handler is a function  *)
(* from state to state and calls compose as they do in the code.           *)
(***************************************************************************)
Cur ==
    [settings |-> settings, store |-> store, writes |-> writes, diag |-> diag,
     currentMenu |-> currentMenu, selectedIndex |-> selectedIndex,
     scrollOffset |-> scrollOffset, scanSSIDs |-> scanSSIDs, scanCount |-> scanCount,
     scanning |-> scanning, editingNetworkIndex |-> editingNetworkIndex,
     editingField |-> editingField, editingRemoteServer |-> editingRemoteServer,
     serverEditField |-> serverEditField, wifiSSID |-> wifiSSID, wifiPass |-> wifiPass,
     inputTA |-> inputTA, inputText |-> inputText, drawn |-> drawn,
     drawnSaved |-> drawnSaved, wifiScan |-> wifiScan, keys |-> keys]

Becomes(st) ==
    /\ settings' = st.settings
    /\ store' = st.store
    /\ writes' = st.writes
    /\ diag' = st.diag
    /\ currentMenu' = st.currentMenu
    /\ selectedIndex' = st.selectedIndex
    /\ scrollOffset' = st.scrollOffset
    /\ scanSSIDs' = st.scanSSIDs
    /\ scanCount' = st.scanCount
    /\ scanning' = st.scanning
    /\ editingNetworkIndex' = st.editingNetworkIndex
    /\ editingField' = st.editingField
    /\ editingRemoteServer' = st.editingRemoteServer
    /\ serverEditField' = st.serverEditField
    /\ wifiSSID' = st.wifiSSID
    /\ wifiPass' = st.wifiPass
    /\ inputTA' = st.inputTA
    /\ inputText' = st.inputText
    /\ drawn' = st.drawn
    /\ drawnSaved' = st.drawnSaved
    /\ wifiScan' = st.wifiScan
    /\ keys' = st.keys
    /\ UNCHANGED cfgVars

\* The static initialisers of settings.cpp and settings_ui.cpp; the Preferences
\* store and its write count outlive a restart.
Constructed(blob, w) ==
    [settings |-> ZeroSettings, store |-> blob, writes |-> w, diag |-> "none",
     currentMenu |-> "Hidden", selectedIndex |-> 0, scrollOffset |-> 0,
     scanSSIDs |-> <<>>, scanCount |-> 0, scanning |-> FALSE,
     editingNetworkIndex |-> -1, editingField |-> 0, editingRemoteServer |-> FALSE,
     serverEditField |-> -1, wifiSSID |-> <<>>, wifiPass |-> <<>>,
     inputTA |-> FALSE, inputText |-> <<>>, drawn |-> "none", drawnSaved |-> TRUE,
     wifiScan |-> "idle", keys |-> 0]

\* Power-up: construction, then settingsInit()
Boot(blob, w) == settingsInit(Constructed(blob, w))

(***************************************************************************)
(* Menu construction (settings_ui.cpp)                                     *)
(***************************************************************************)
\* clearMenu() and the rebuilding of menuContainer as the list screen `screen`
createMenuContainer(st, screen) ==
    [st EXCEPT !.drawn = screen, !.inputTA = FALSE, !.inputText = <<>>, !.keys = 0,
               !.drawnSaved = (st.store = Blob(st.settings))]

createMainMenu(st) == createMenuContainer(st, "Main")
createDisplayMenu(st) == createMenuContainer(st, "Display")
createWiFiListMenu(st) == createMenuContainer(st, "WifiList")
createWiFiScanMenu(st) == createMenuContainer(st, "WifiScan")
createSystemMenu(st) == createMenuContainer(st, "System")
createAboutMenu(st) == createMenuContainer(st, "About")

createServerMenu(st, isRemote) ==
    createMenuContainer([st EXCEPT !.editingRemoteServer = isRemote,
                                   !.serverEditField = -1],
                        IF isRemote THEN "ServerRemote" ELSE "ServerLocal")

createTextInputScreen(st, initial) ==
    [st EXCEPT !.drawn = "TextInput", !.inputTA = TRUE, !.inputText = initial,
               !.keys = 0, !.drawnSaved = (st.store = Blob(st.settings))]

\* createWiFiAddMenu that goes to the password step for every ssid that is not NULL
WiFiAddMenuSkipsToPassword(st, ssid) ==
    createTextInputScreen(
        [st EXCEPT !.wifiSSID = SubSeq(ssid, 1, Min(Len(ssid), MAX_SSID_LEN - 1)),
                   !.editingField = 1, !.wifiPass = <<>>], <<>>)

\* ssid is a C string; NULL is passed as the empty string (both take the else)
createWiFiAddMenu(st, ssid) ==
    LET st1 == IF strlen(ssid) > 0
               THEN [st EXCEPT !.wifiSSID = SubSeq(ssid, 1, Min(Len(ssid), MAX_SSID_LEN - 1)),
                               !.editingField = 1]
               ELSE [st EXCEPT !.wifiSSID = <<>>, !.editingField = 0]
    IN createTextInputScreen([st1 EXCEPT !.wifiPass = <<>>], <<>>)

RECURSIVE Dec(_)
\* "%d" of a non-negative number
Dec(n) == IF n < 10 THEN <<48 + n>> ELSE Append(Dec(n \div 10), 48 + (n % 10))

IsSpace(c) == c = 32 \/ (c >= 9 /\ c <= 13)
IsDigit(c) == c >= 48 /\ c <= 57

RECURSIVE Digits(_, _)
Digits(s, acc) ==
    IF s = <<>> \/ ~IsDigit(s[1]) THEN acc ELSE Digits(Tail(s), 10 * acc + (s[1] - 48))

RECURSIVE atoi(_)
atoi(s) ==
    IF s = <<>> THEN 0
    ELSE IF IsSpace(s[1]) THEN atoi(Tail(s))
    ELSE IF s[1] = 45 THEN 0 - Digits(Tail(s), 0)
    ELSE IF s[1] = 43 THEN Digits(Tail(s), 0)
    ELSE Digits(s, 0)

Server(st) == IF st.editingRemoteServer THEN st.settings.remoteServer
              ELSE st.settings.localServer

\* SetServer with the two servers taken for each other
SetOtherServer(st, c) ==
    IF st.editingRemoteServer THEN [st EXCEPT !.settings.localServer = c]
    ELSE [st EXCEPT !.settings.remoteServer = c]

SetServer(st, c) ==
    IF st.editingRemoteServer THEN [st EXCEPT !.settings.remoteServer = c]
    ELSE [st EXCEPT !.settings.localServer = c]

createServerEditMenu(st, field) ==
    LET st1 == [st EXCEPT !.serverEditField = field]
        server == Server(st1)
    IN CASE field = 0 -> createTextInputScreen(st1, CStr(server.host))
         [] field = 1 -> createTextInputScreen(st1, Dec(server.port))
         [] field = 2 -> createTextInputScreen(st1, CStr(server.username))
         [] field = 3 -> createTextInputScreen(st1, CStr(server.password))
         [] OTHER -> st1

settingsUIHide(st) == [st EXCEPT !.currentMenu = "Hidden"]

settingsUIIsVisible(st) == st.currentMenu # "Hidden"

settingsUIShow(st) ==
    createMainMenu([st EXCEPT !.currentMenu = "Main", !.selectedIndex = 0,
                              !.scrollOffset = 0])

\* goBack that leaves every screen for Main
GoBackToMain(st) ==
    IF st.currentMenu = "Main" THEN settingsUIHide(st)
    ELSE createMainMenu([st EXCEPT !.currentMenu = "Main", !.selectedIndex = 0,
                                   !.scrollOffset = 0])

goBack(st) ==
    CASE st.currentMenu = "Main" -> settingsUIHide(st)
      [] st.currentMenu \in {"Display", "WifiList", "ServerLocal", "ServerRemote",
                             "System", "About"} ->
            createMainMenu([st EXCEPT !.currentMenu = "Main", !.selectedIndex = 0,
                                      !.scrollOffset = 0])
      [] st.currentMenu \in {"WifiScan", "WifiAdd", "WifiEdit"} ->
            createWiFiListMenu([st EXCEPT !.currentMenu = "WifiList",
                                          !.selectedIndex = 0, !.scrollOffset = 0])
      [] OTHER -> settingsUIHide(st)

\* the switch on selectedIndex in handleMainMenuSelect
MainMenuSwitch(st) ==
    CASE st.selectedIndex = 0 -> settingsUIHide(st)
      [] st.selectedIndex = 1 ->
            createDisplayMenu([st EXCEPT !.currentMenu = "Display", !.selectedIndex = 0])
      [] st.selectedIndex = 2 ->
            createWiFiListMenu([st EXCEPT !.currentMenu = "WifiList", !.selectedIndex = 0])
      [] st.selectedIndex = 3 ->
            createServerMenu([st EXCEPT !.currentMenu = "ServerLocal",
                                        !.selectedIndex = 0], FALSE)
      [] st.selectedIndex = 4 ->
            createServerMenu([st EXCEPT !.currentMenu = "ServerRemote",
                                        !.selectedIndex = 0], TRUE)
      [] st.selectedIndex = 5 ->
            createSystemMenu([st EXCEPT !.currentMenu = "System", !.selectedIndex = 0])
      [] st.selectedIndex = 6 ->
            createAboutMenu([st EXCEPT !.currentMenu = "About", !.selectedIndex = 0])
      [] OTHER -> st

handleMainMenuSelect(st) == MainMenuSwitch([st EXCEPT !.scrollOffset = 0])

handleDisplaySelect(st) == IF st.selectedIndex = 0 THEN goBack(st) ELSE st

\* the value of the 4-byte enum read as an int
ThemeInt(t) == t[1] + 256 * t[2] + 65536 * t[3]
                   + 16777216 * (IF t[4] >= 128 THEN t[4] - 256 ELSE t[4])

\* handleDisplayAdjust with the theme stepped but not wrapped
DisplayAdjustNoWrap(st, direction) ==
    IF st.selectedIndex = 1
    THEN LET b0 == st.settings.brightness + direction * 25
             b1 == IF b0 < 10 THEN 10 ELSE b0
             b2 == IF b1 > 255 THEN 255 ELSE b1
         IN createDisplayMenu(settingsSave([st EXCEPT !.settings.brightness = b2]))
    ELSE IF st.selectedIndex = 2
    THEN createDisplayMenu(settingsSave(
             [st EXCEPT !.settings.theme = U32(ThemeInt(st.settings.theme) + direction)]))
    ELSE st

\* the brightness step without settingsSave
DisplayAdjustNoSave(st, direction) ==
    IF st.selectedIndex = 1
    THEN createDisplayMenu(
             [st EXCEPT !.settings.brightness =
                 Min(255, Max(10, st.settings.brightness + direction * 25))])
    ELSE st

handleDisplayAdjust(st, direction) ==
    IF st.selectedIndex = 1
    THEN LET b0 == st.settings.brightness + direction * 25
             b1 == IF b0 < 10 THEN 10 ELSE b0
             b2 == IF b1 > 255 THEN 255 ELSE b1
         IN createDisplayMenu(settingsSave([st EXCEPT !.settings.brightness = b2]))
    ELSE IF st.selectedIndex = 2
    THEN LET t0 == ThemeInt(st.settings.theme) + direction
             t1 == IF t0 < 0 THEN THEME_COUNT - 1 ELSE t0
             t2 == IF t1 >= THEME_COUNT THEN 0 ELSE t1
         IN createDisplayMenu(settingsSave([st EXCEPT !.settings.theme = U32(t2)]))
    ELSE st

\* handleSystemAdjust with the volume and the intensity clamped from below only
SystemAdjustNoCeiling(st, direction) ==
    CASE st.selectedIndex = 2 ->
            createSystemMenu(settingsSave(
                [st EXCEPT !.settings.volume =
                               Max(0, st.settings.volume + direction * 10)]))
      [] st.selectedIndex = 4 ->
            createSystemMenu(settingsSave(
                [st EXCEPT !.settings.hapticIntensity =
                               Max(0, st.settings.hapticIntensity + direction * 10)]))
      [] OTHER -> st

\* handleSystemAdjust with the sound toggle left unsaved
SystemAdjustNoSave(st, direction) ==
    IF st.selectedIndex = 1
    THEN createSystemMenu(
             [st EXCEPT !.settings.soundEnabled = Not(st.settings.soundEnabled)])
    ELSE st

handleSystemAdjust(st, direction) ==
    CASE st.selectedIndex = 1 ->
            createSystemMenu(settingsSave(
                [st EXCEPT !.settings.soundEnabled = Not(st.settings.soundEnabled)]))
      [] st.selectedIndex = 2 ->
            LET v0 == st.settings.volume + direction * 10
                v1 == IF v0 < 0 THEN 0 ELSE v0
                v2 == IF v1 > 100 THEN 100 ELSE v1
            IN createSystemMenu(settingsSave([st EXCEPT !.settings.volume = v2]))
      [] st.selectedIndex = 3 ->
            createSystemMenu(settingsSave(
                [st EXCEPT !.settings.hapticEnabled = Not(st.settings.hapticEnabled)]))
      [] st.selectedIndex = 4 ->
            LET h0 == st.settings.hapticIntensity + direction * 10
                h1 == IF h0 < 0 THEN 0 ELSE h0
                h2 == IF h1 > 100 THEN 100 ELSE h1
            IN createSystemMenu(settingsSave([st EXCEPT !.settings.hapticIntensity = h2]))
      [] st.selectedIndex = 5 ->
            createSystemMenu(settingsSave(
                [st EXCEPT !.settings.wifiAutoConnect = Not(st.settings.wifiAutoConnect)]))
      [] st.selectedIndex = 6 ->
            createSystemMenu(settingsSave(
                [st EXCEPT !.settings.preferRemote = Not(st.settings.preferRemote)]))
      [] OTHER -> st

handleSystemSelect(st) ==
    CASE st.selectedIndex = 0 -> goBack(st)
      [] st.selectedIndex \in {1, 3, 5, 6} -> handleSystemAdjust(st, 1)
      [] st.selectedIndex = 7 ->
            createSystemMenu(settingsSave(
                [st EXCEPT !.settings = settingsReset(st.settings)]))
      [] st.selectedIndex = 8 -> Boot(st.store, st.writes)
      [] OTHER -> st

\* WiFi.scanNetworks(true): an asynchronous scan is under way
scanNetworks(st) == [st EXCEPT !.wifiScan = "running"]

\* entries of scanSSIDs[] at scanCount and above are never read; they are left out
settingsUIStartWiFiScan(st) ==
    scanNetworks(createWiFiScanMenu(
        [st EXCEPT !.scanning = TRUE, !.scanCount = 0, !.scanSSIDs = <<>>]))

\* what one scan can report: n networks, the first named "7", the others hidden
\* (a hidden network has the empty SSID)
Found(n) == [i \in 1..n |-> IF i = 1 THEN <<55>> ELSE <<>>]

\* WiFi.scanComplete() at one poll: the networks found once the scan under way has
\* ended, WIFI_SCAN_RUNNING (-1) before that, WIFI_SCAN_FAILED (-2) with no scan
scanComplete(st) ==
    IF st.wifiScan = "running"
    THEN {[n |-> -1, found |-> <<>>]} \cup {[n |-> k, found |-> Found(k)] : k \in 0..MaxFound}
    ELSE {[n |-> -2, found |-> <<>>]}

\* settingsUIUpdateWiFiList without the min against MAX_SCAN_RESULTS
UpdateWiFiListNoMin(st, reply) ==
    IF reply.n >= 0
    THEN createWiFiScanMenu(
             [st EXCEPT !.scanning = FALSE, !.scanCount = reply.n,
                        !.scanSSIDs = reply.found,
                        !.wifiScan = "idle"])
    ELSE st

\* settingsUIUpdateWiFiList() when WiFi.scanComplete() gives reply; WiFi.scanDelete()
\* drops the result
settingsUIUpdateWiFiList(st, reply) ==
    LET cnt == Min(reply.n, MAX_SCAN_RESULTS)
    IN IF reply.n >= 0
       THEN createWiFiScanMenu(
                [st EXCEPT !.scanning = FALSE, !.scanCount = cnt,
                           !.scanSSIDs = SubSeq(reply.found, 1, cnt),
                           !.wifiScan = "idle"])
       ELSE st

\* deleteWiFiNetwork without the loop that moves the entries
DeleteKeepsSlots(st, index) ==
    IF index < 0 \/ index >= st.settings.wifiNetworkCount THEN st
    ELSE settingsSave(
             [st EXCEPT !.settings.wifiNetworkCount = st.settings.wifiNetworkCount - 1])

deleteWiFiNetwork(st, index) ==
    IF index < 0 \/ index >= st.settings.wifiNetworkCount THEN st
    ELSE settingsSave(
             [st EXCEPT !.settings.wifiNetworks =
                            [i \in 0..(MAX_WIFI_NETWORKS - 1) |->
                                IF i >= index /\ i < st.settings.wifiNetworkCount - 1
                                THEN st.settings.wifiNetworks[i + 1]
                                ELSE st.settings.wifiNetworks[i]],
                        !.settings.wifiNetworkCount = st.settings.wifiNetworkCount - 1])

\* handleWiFiListSelect with the flag of the first network flipped on every network row
ListSelectTogglesFirst(st) ==
    IF st.selectedIndex = 0 THEN goBack(st)
    ELSE IF st.selectedIndex = 1
    THEN settingsUIStartWiFiScan([st EXCEPT !.currentMenu = "WifiScan",
                                            !.selectedIndex = 0])
    ELSE IF st.selectedIndex <= st.settings.wifiNetworkCount + 1
    THEN createWiFiListMenu(settingsSave(
             [st EXCEPT !.settings.wifiNetworks[0].enabled =
                            Not(st.settings.wifiNetworks[0].enabled)]))
    ELSE createWiFiAddMenu([st EXCEPT !.currentMenu = "WifiAdd", !.selectedIndex = 0,
                                      !.editingNetworkIndex = -1], <<>>)

handleWiFiListSelect(st) ==
    IF st.selectedIndex = 0 THEN goBack(st)
    ELSE IF st.selectedIndex = 1
    THEN settingsUIStartWiFiScan([st EXCEPT !.currentMenu = "WifiScan",
                                            !.selectedIndex = 0])
    ELSE IF st.selectedIndex <= st.settings.wifiNetworkCount + 1
    THEN LET netIndex == st.selectedIndex - 2
         IN IF netIndex >= 0 /\ netIndex < st.settings.wifiNetworkCount
            THEN createWiFiListMenu(settingsSave(
                     [st EXCEPT !.settings.wifiNetworks[netIndex].enabled =
                                    Not(st.settings.wifiNetworks[netIndex].enabled)]))
            ELSE st
    ELSE createWiFiAddMenu([st EXCEPT !.currentMenu = "WifiAdd", !.selectedIndex = 0,
                                      !.editingNetworkIndex = -1], <<>>)

handleWiFiScanSelect(st) ==
    IF st.selectedIndex = 0 THEN goBack(st)
    ELSE IF st.selectedIndex <= st.scanCount
    THEN createWiFiAddMenu([st EXCEPT !.currentMenu = "WifiAdd"],
                           CStr(st.scanSSIDs[st.selectedIndex]))
    ELSE st

handleServerSelect(st) ==
    LET server == Server(st)
    IN CASE st.selectedIndex = 0 -> goBack(st)
         [] st.selectedIndex = 1 ->
               LET st1 == settingsSave(
                              SetServer(st, [server EXCEPT !.enabled = Not(server.enabled)]))
               IN createServerMenu(st1, st1.editingRemoteServer)
         [] st.selectedIndex = 2 -> createServerEditMenu(st, 0)
         [] st.selectedIndex = 3 -> createServerEditMenu(st, 1)
         [] st.selectedIndex = 4 -> createServerEditMenu(st, 2)
         [] st.selectedIndex = 5 -> createServerEditMenu(st, 3)
         [] st.selectedIndex = 6 ->
               LET st1 == settingsSave(
                              SetServer(st, [server EXCEPT !.useSSL = Not(server.useSSL)]))
               IN createServerMenu(st1, st1.editingRemoteServer)
         [] st.selectedIndex = 9 -> settingsUIHide(st)
         [] OTHER -> st

\* saveWiFiNetwork that overwrites the last entry when the list is full
SaveWiFiOverwritesLast(st, ssid, password) ==
    LET idx == Min(st.settings.wifiNetworkCount, MAX_WIFI_NETWORKS - 1)
        old == st.settings.wifiNetworks[idx]
    IN settingsSave(
           [st EXCEPT !.settings.wifiNetworks[idx] =
                          [ssid |-> strncpy(old.ssid, ssid, MAX_SSID_LEN - 1),
                           password |-> strncpy(old.password, password,
                                                MAX_PASS_LEN - 1),
                           enabled |-> 1],
                      !.settings.wifiNetworkCount = idx + 1])

\* saveWiFiNetwork without wifiNetworkCount++
SaveWiFiKeepsCount(st, ssid, password) ==
    IF st.settings.wifiNetworkCount < MAX_WIFI_NETWORKS
    THEN LET idx == st.settings.wifiNetworkCount
             old == st.settings.wifiNetworks[idx]
         IN settingsSave(
                [st EXCEPT !.settings.wifiNetworks[idx] =
                               [ssid |-> strncpy(old.ssid, ssid, MAX_SSID_LEN - 1),
                                password |-> strncpy(old.password, password,
                                                     MAX_PASS_LEN - 1),
                                enabled |-> 1]])
    ELSE st

saveWiFiNetwork(st, ssid, password) ==
    IF st.settings.wifiNetworkCount < MAX_WIFI_NETWORKS
    THEN LET idx == st.settings.wifiNetworkCount
             old == st.settings.wifiNetworks[idx]
         IN settingsSave(
                [st EXCEPT !.settings.wifiNetworks[idx] =
                               [ssid |-> strncpy(old.ssid, ssid, MAX_SSID_LEN - 1),
                                password |-> strncpy(old.password, password,
                                                     MAX_PASS_LEN - 1),
                                enabled |-> 1],
                           !.settings.wifiNetworkCount = idx + 1])
    ELSE st

settingsUICancelInput(st) ==
    LET st1 == [st EXCEPT !.wifiSSID = <<>>, !.wifiPass = <<>>, !.editingField = 0,
                          !.serverEditField = -1]
    IN IF st1.currentMenu \in {"WifiAdd", "WifiEdit"}
       THEN createWiFiListMenu([st1 EXCEPT !.currentMenu = "WifiList",
                                           !.selectedIndex = 0, !.scrollOffset = 0])
       ELSE IF st1.serverEditField >= 0
       THEN createServerMenu([st1 EXCEPT !.serverEditField = -1],
                             st1.editingRemoteServer)
       ELSE goBack(st1)

\* key codes
KEY_ENTER == 10
KEY_BACKSPACE == 8
KEY_Q == 113
KEY_7 == 55

IsPrintable(key) == key >= 32 /\ key < 127
IsBackspace(key) == key = 8 \/ key = 127
IsEnter(key) == key = 10 \/ key = 13

\* lv_textarea_add_char / lv_textarea_delete_char (cursor at the end)
TextKey(st, key) ==
    IF IsPrintable(key)
    THEN [st EXCEPT !.inputText = Append(st.inputText, key), !.keys = st.keys + 1]
    ELSE IF st.inputText = <<>> THEN [st EXCEPT !.keys = st.keys + 1]
    ELSE [st EXCEPT !.inputText = SubSeq(st.inputText, 1, Len(st.inputText) - 1),
                    !.keys = st.keys + 1]

\* Enter in the WiFi add flow (settingsUIHandleKey, first branch)
WiFiAddCommit(st) ==
    LET text == st.inputText
    IN IF st.editingField = 0
       THEN createWiFiAddMenu(
                [st EXCEPT !.wifiSSID = SubSeq(text, 1, Min(Len(text), MAX_SSID_LEN - 1)),
                           !.editingField = 1],
                SubSeq(text, 1, Min(Len(text), MAX_SSID_LEN - 1)))
       ELSE LET st1 == [st EXCEPT !.wifiPass =
                                      SubSeq(text, 1, Min(Len(text), MAX_PASS_LEN - 1))]
                st2 == IF strlen(st1.wifiSSID) > 0
                       THEN saveWiFiNetwork(st1, st1.wifiSSID, st1.wifiPass)
                       ELSE st1
            IN createWiFiListMenu(
                   [st2 EXCEPT !.wifiSSID = <<>>, !.wifiPass = <<>>, !.editingField = 0,
                               !.currentMenu = "WifiList", !.selectedIndex = 0,
                               !.scrollOffset = 0])

\* Enter in the server field editor (settingsUIHandleKey, second branch)
ServerEditCommit(st) ==
    LET text == st.inputText
        server == Server(st)
        p == atoi(text) % 65536
        edited ==
            CASE st.serverEditField = 0 ->
                    [server EXCEPT !.host = strncpy(server.host, text, MAX_HOST_LEN - 1)]
              [] st.serverEditField = 1 ->
                    [server EXCEPT !.port = IF p = 0 THEN 22 ELSE p]
              [] st.serverEditField = 2 ->
                    [server EXCEPT !.username = strncpy(server.username, text, 31)]
              [] st.serverEditField = 3 ->
                    [server EXCEPT !.password = strncpy(server.password, text, 31)]
              [] OTHER -> server
        st1 == settingsSave(SetServer(st, edited))
    IN createServerMenu(
           [st1 EXCEPT !.serverEditField = -1,
                       !.currentMenu = IF st1.editingRemoteServer THEN "ServerRemote"
                                       ELSE "ServerLocal",
                       !.selectedIndex = 0, !.scrollOffset = 0],
           st1.editingRemoteServer)

\* the switch on currentMenu under "Navigation" in settingsUIHandleKey
SelectDispatch(st) ==
    CASE st.currentMenu = "Main" -> handleMainMenuSelect(st)
      [] st.currentMenu = "Display" -> handleDisplaySelect(st)
      [] st.currentMenu = "WifiList" -> handleWiFiListSelect(st)
      [] st.currentMenu = "WifiScan" -> handleWiFiScanSelect(st)
      [] st.currentMenu \in {"ServerLocal", "ServerRemote"} -> handleServerSelect(st)
      [] st.currentMenu = "System" -> handleSystemSelect(st)
      [] st.currentMenu = "About" -> goBack(st)
      [] OTHER -> st

settingsUIHandleKey(st, key) ==
    IF st.inputTA /\ st.currentMenu \in {"WifiAdd", "WifiEdit"}
    THEN IF IsPrintable(key) \/ IsBackspace(key) THEN TextKey(st, key)
         ELSE IF IsEnter(key) THEN WiFiAddCommit(st)
         ELSE st
    ELSE IF st.inputTA /\ st.serverEditField >= 0
    THEN IF IsPrintable(key) \/ IsBackspace(key) THEN TextKey(st, key)
         ELSE IF IsEnter(key) THEN ServerEditCommit(st)
         ELSE st
    ELSE IF key = KEY_Q THEN goBack(st)
    ELSE IF IsEnter(key) THEN SelectDispatch(st)
    ELSE st

\* maxItems of settingsUIHandleRotary; 0 for the screens that take the default
maxItems(st) ==
    CASE st.currentMenu = "Main" -> 7
      [] st.currentMenu = "Display" -> 3
      [] st.currentMenu = "WifiList" -> st.settings.wifiNetworkCount + 3
      [] st.currentMenu = "WifiScan" -> st.scanCount + 1
      [] st.currentMenu \in {"ServerLocal", "ServerRemote"} -> 10
      [] st.currentMenu = "System" -> 9
      [] st.currentMenu = "About" -> 1
      [] OTHER -> 0

\* "Refresh current menu" at the end of settingsUIHandleRotary
Refresh(st) ==
    CASE st.currentMenu = "Main" -> createMainMenu(st)
      [] st.currentMenu = "Display" -> createDisplayMenu(st)
      [] st.currentMenu = "WifiList" -> createWiFiListMenu(st)
      [] st.currentMenu = "WifiScan" -> createWiFiScanMenu(st)
      [] st.currentMenu = "ServerLocal" -> createServerMenu(st, FALSE)
      [] st.currentMenu = "ServerRemote" -> createServerMenu(st, TRUE)
      [] st.currentMenu = "System" -> createSystemMenu(st)
      [] OTHER -> st

\* Navigate with the wrap test written as > maxItems
NavigateWrapsLate(st, direction) ==
    LET n == maxItems(st)
        s0 == st.selectedIndex + direction
        s1 == IF s0 < 0 THEN n - 1 ELSE s0
        s2 == IF s1 > n THEN 0 ELSE s1
        off == IF s2 < st.scrollOffset THEN s2
               ELSE IF s2 >= st.scrollOffset + maxVisibleItems
                    THEN s2 - maxVisibleItems + 1
                    ELSE st.scrollOffset
    IN IF n = 0 THEN st
       ELSE Refresh([st EXCEPT !.selectedIndex = s2, !.scrollOffset = off])

\* "Navigate menu" and "Handle scrolling" in settingsUIHandleRotary
Navigate(st, direction) ==
    LET n == maxItems(st)
        s0 == st.selectedIndex + direction
        s1 == IF s0 < 0 THEN n - 1 ELSE s0
        s2 == IF s1 >= n THEN 0 ELSE s1
        off == IF s2 < st.scrollOffset THEN s2
               ELSE IF s2 >= st.scrollOffset + maxVisibleItems
                    THEN s2 - maxVisibleItems + 1
                    ELSE st.scrollOffset
    IN IF n = 0 THEN st
       ELSE Refresh([st EXCEPT !.selectedIndex = s2, !.scrollOffset = off])

\* settingsUIHandleRotary that adjusts on every System row below the back row
RotaryAdjustsAnyRow(st, direction) ==
    IF direction = 0 THEN settingsUIHandleKey(st, KEY_ENTER)
    ELSE IF st.currentMenu = "Display" /\ st.selectedIndex > 0
    THEN handleDisplayAdjust(st, direction)
    ELSE IF st.currentMenu = "System" /\ st.selectedIndex > 0
    THEN handleSystemAdjust(st, direction)
    ELSE Navigate(st, direction)

settingsUIHandleRotary(st, direction) ==
    IF direction = 0 THEN settingsUIHandleKey(st, KEY_ENTER)
    ELSE IF st.currentMenu = "Display" /\ st.selectedIndex > 0
    THEN handleDisplayAdjust(st, direction)
    ELSE IF st.currentMenu = "System" /\ st.selectedIndex \in {2, 4}
    THEN handleSystemAdjust(st, direction)
    ELSE Navigate(st, direction)

(***************************************************************************)
(* Configuration loader (ConfigLoader.h, ConfigLoader.cpp).                *)
(*                                                                         *)
(* A String is the sequence of its character codes.  A document is what    *)
(* tinyxml2 makes of the file: nothing (the file is empty), a parse error, *)
(* or a tree, given by its root element and the content of the nodes the   *)
(* loader asks for.  The nodes are named after the field they are read     *)
(* into ("gateway.port" is the element port of the section gateway).       *)
(***************************************************************************)
\* GetText() of an element that has no text: the null pointer
Null == <<0>>

\* el->GetText() assigned without the test for the null pointer
GetTextUnchecked(text) == text

\* el->GetText() ? el->GetText() : ""
GetTextOrEmpty(text) == IF text = Null THEN <<>> ELSE text

\* texts of nodes
TxtTrue == <<116, 114, 117, 101>>
TxtTrueSpaced == <<32, 116, 114, 117, 101, 32>>
TxtTrueUpper == <<84, 114, 117, 101>>
TxtFalse == <<102, 97, 108, 115, 101>>
TxtNumber == <<52, 50>>
TxtNumberSpaced == <<32, 55>>
TxtNumberThenText == <<57, 109, 115>>
TxtBigNumber == <<55, 48, 48, 48, 48>>
TxtNoNumber == <<97, 98, 99>>
TxtHome == <<104, 111, 109, 101>>
TxtSecret == <<112, 119>>
TxtLan == <<108, 97, 110>>
TxtAltTheme == <<116, 46, 120, 109, 108>>
TxtAltKeymap == <<47, 107, 46, 120, 109, 108>>

RECURSIVE SkipWhiteSpace(_)
SkipWhiteSpace(s) == IF s # <<>> /\ IsSpace(s[1]) THEN SkipWhiteSpace(Tail(s)) ELSE s

\* sscanf(text, "%u", &value) == 1, and the value it stores: white space, a sign, and
\* the digits up to the first other character.  A negated number stands for its
\* residue modulo 2^32.
ToUnsigned(text) ==
    LET s == SkipWhiteSpace(text)
        signed == s # <<>> /\ s[1] \in {43, 45}
        body == IF signed THEN Tail(s) ELSE s
    IN IF body = <<>> \/ ~IsDigit(body[1]) THEN [ok |-> FALSE, value |-> 0]
       ELSE [ok |-> TRUE,
             value |-> IF s[1] = 45 THEN 0 - Digits(body, 0) ELSE Digits(body, 0)]

\* XMLElement::QueryUnsignedText: XML_NO_TEXT_NODE without text
QueryUnsignedText(text) ==
    IF text = Null THEN [ok |-> FALSE, value |-> 0] ELSE ToUnsigned(text)

\* XMLElement::QueryIntAttribute on the attributes attrs of an element
QueryIntAttribute(attrs, name, old) ==
    IF name \in DOMAIN attrs /\ ToUnsigned(attrs[name]).ok
    THEN ToUnsigned(attrs[name]).value
    ELSE old

\* strcmp(text, "true") == 0 for a text that is not the null pointer
IsLiteralTrue(text) == text = TxtTrue

\* the paths and names compiled in
DefaultGatewayHost == <<49, 57, 50, 46, 49, 54, 56, 46, 49, 46, 49, 48, 48>>
DefaultGatewayPath == <<47, 119, 115>>
DefaultFontName == <<109, 111, 110, 111>>
DefaultKeymapFile == <<47, 99, 111, 110, 102, 105, 103, 47, 107, 101, 121, 109, 97, 112, 115, 47, 117, 115, 95, 113, 119, 101, 114, 116, 121, 46, 120, 109, 108>>
DefaultThemeFile == <<47, 99, 111, 110, 102, 105, 103, 47, 116, 104, 101, 109, 101, 115, 47, 110, 97, 115, 97, 95, 109, 105, 110, 105, 109, 97, 108, 46, 120, 109, 108>>
DefaultThemeName == <<110, 97, 115, 97, 95, 109, 105, 110, 105, 109, 97, 108>>
DefaultCursorStyle == <<98, 108, 111, 99, 107>>
MainConfigPath == <<47, 99, 111, 110, 102, 105, 103, 47, 116, 108, 111, 114, 97, 95, 116, 101, 114, 109, 105, 110, 97, 108, 95, 99, 111, 110, 102, 105, 103, 46, 120, 109, 108>>
ProfileDir == <<47, 99, 111, 110, 102, 105, 103, 47, 112, 114, 111, 102, 105, 108, 101, 115, 47>>
DotXml == <<46, 120, 109, 108>>

\* ConfigLoader::setDefaults(): the fields it assigns
Defaults ==
    [f \in {"wifi.ssid", "wifi.password", "gateway.sni"} |-> <<>>]
    @@ ("gateway.host" :> DefaultGatewayHost)
    @@ ("gateway.port" :> 7681)
    @@ ("gateway.path" :> DefaultGatewayPath)
    @@ ("gateway.useSsl" :> FALSE)
    @@ ("gateway.connectTimeoutMs" :> 4000)
    @@ ("gateway.reconnectDelayMs" :> 800)
    @@ ("gateway.maxReconnectDelayMs" :> 5000)
    @@ ("gateway.pingIntervalMs" :> 15000)
    @@ ("terminal.cols" :> 80)
    @@ ("terminal.rows" :> 18)
    @@ ("terminal.scrollbackLines" :> 0)
    @@ ("terminal.fontName" :> DefaultFontName)
    @@ ("terminal.fontSize" :> 14)
    @@ ("input.keyboard.keymapFile" :> DefaultKeymapFile)
    @@ ("input.keyboard.debounceMs" :> 15)
    @@ ("input.encoder.pressSendsEnter" :> TRUE)
    @@ ("input.encoder.rotateScrollEnabled" :> FALSE)
    @@ ("input.encoder.rotateStepLines" :> 1)
    @@ ("haptics.enabled" :> TRUE)
    @@ ("haptics.keypressMs" :> 8)
    @@ ("haptics.bellMs" :> 40)
    @@ ("ui.statusBarEnabled" :> TRUE)
    @@ ("ui.themeFile" :> DefaultThemeFile)
    @@ ("logging.serialBaud" :> 115200)
    @@ ("logging.debugWebSocket" :> FALSE)
    @@ ("logging.debugKeyboard" :> FALSE)
    @@ ("theme.name" :> DefaultThemeName)
    @@ ("theme.colors.bg" :> <<0, 0, 0>>)
    @@ ("theme.colors.fg" :> <<230, 230, 230>>)
    @@ ("theme.colors.muted" :> <<140, 140, 140>>)
    @@ ("theme.colors.ok" :> <<80, 220, 160>>)
    @@ ("theme.colors.warn" :> <<240, 200, 80>>)
    @@ ("theme.colors.err" :> <<255, 90, 90>>)
    @@ ("theme.colors.statusBg" :> <<20, 20, 20>>)
    @@ ("theme.colors.statusFg" :> <<220, 220, 220>>)
    @@ ("theme.cursor.style" :> DefaultCursorStyle)
    @@ ("theme.cursor.blink" :> TRUE)
    @@ ("theme.selectionInvert" :> TRUE)
    @@ ("theme.statusBar.heightPx" :> 18)
    @@ ("theme.statusBar.icons" :> TRUE)
    @@ ("theme.statusBar.showWifi" :> TRUE)
    @@ ("theme.statusBar.showWebSocket" :> TRUE)
    @@ ("theme.statusBar.showModifiers" :> TRUE)

\* the members setDefaults() does not assign, as their constructors leave them
EmptyKeymap ==
    ("keymap.name" :> <<>>) @@ ("keymap.keys" :> <<>>) @@ ("keymap.modifiers" :> <<>>)

\* setDefaults() on the configuration config
setDefaults(config) == Defaults @@ config

\* ConfigLoader::ConfigLoader()
ConstructedLoader ==
    [config |-> setDefaults(EmptyKeymap), loaded |-> FALSE, nvsOpen |-> FALSE]

\* the namespace "tlora_cfg" with no key in it
NoNvs == [wifi_ssid |-> <<>>, wifi_pass |-> <<>>, last_profile |-> <<>>]

\* LittleFS before it is mounted, without documents
NoFiles == [mounted |-> FALSE, files |-> [path \in {} |-> <<>>]]

\* the loader as the static constructor leaves it, before any call
LoaderIdle ==
    /\ configLoader = ConstructedLoader
    /\ nvs = NoNvs
    /\ fs = NoFiles
    /\ ret = "none"

\* the content of a file: empty, text that does not parse, or a tree
EmptyFile == [kind |-> "empty", root |-> "", nodes |-> <<>>]
InvalidXml == [kind |-> "invalid", root |-> "", nodes |-> <<>>]
Xml(root, nodes) == [kind |-> "xml", root |-> root, nodes |-> nodes]

\* ConfigLoader::readFile on the file system files: "" when the file cannot be
\* opened, because it is not there or because nothing is mounted
readFile(files, path) ==
    IF files.mounted /\ path \in DOMAIN files.files THEN files.files[path] ELSE EmptyFile

\* String::isEmpty() of what readFile returned
isEmpty(xml) == xml.kind = "empty"

\* doc.Parse(xml) == XML_SUCCESS and doc.FirstChildElement(root) is found
ParsesWithRoot(xml, root) == xml.kind = "xml" /\ xml.root = root

\* One assignment of a parse function: the field, how its node is read, and the
\* block whose local "unsigned int tmp" it goes through ("" for none).
\*   S   el->GetText() ? el->GetText() : ""          B   strcmp(el->GetText(), "true") == 0
\*   U32 el->QueryUnsignedText(&field)               P16 the same through (unsigned int*)&port
\*   T16, T8  { el->QueryUnsignedText(&tmp); field = tmp; }
\*   A   an attribute of the root                    C   parseColor
Reads(field, kind, block) == [field |-> field, kind |-> kind, block |-> block]

\* parseMainConfig, lines 171-256, in the order of the code
MainSteps ==
    <<Reads("wifi.ssid", "S", ""), Reads("wifi.password", "S", ""),
      Reads("gateway.host", "S", ""), Reads("gateway.port", "P16", ""),
      Reads("gateway.path", "S", ""), Reads("gateway.useSsl", "B", ""),
      Reads("gateway.sni", "S", ""),
      Reads("gateway.connectTimeoutMs", "U32", ""),
      Reads("gateway.reconnectDelayMs", "U32", ""),
      Reads("gateway.maxReconnectDelayMs", "U32", ""),
      Reads("gateway.pingIntervalMs", "U32", ""),
      Reads("terminal.cols", "T16", "terminal"), Reads("terminal.rows", "T16", "terminal"),
      Reads("terminal.scrollbackLines", "T16", "terminal"),
      Reads("terminal.fontName", "S", "terminal"),
      Reads("terminal.fontSize", "T8", "terminal"),
      Reads("input.keyboard.keymapFile", "S", "keyboard"),
      Reads("input.keyboard.debounceMs", "T8", "keyboard"),
      Reads("input.encoder.pressSendsEnter", "B", "encoder"),
      Reads("input.encoder.rotateScrollEnabled", "B", "encoder"),
      Reads("input.encoder.rotateStepLines", "T8", "encoder"),
      Reads("haptics.enabled", "B", "haptics"), Reads("haptics.keypressMs", "T8", "haptics"),
      Reads("haptics.bellMs", "T8", "haptics"),
      Reads("ui.statusBarEnabled", "B", ""), Reads("ui.themeFile", "S", ""),
      Reads("logging.serialBaud", "U32", ""), Reads("logging.debugWebSocket", "B", ""),
      Reads("logging.debugKeyboard", "B", "")>>

\* parseGatewayProfile, lines 293-298
ProfileSteps ==
    <<Reads("gateway.host", "S", ""), Reads("gateway.port", "P16", ""),
      Reads("gateway.path", "S", ""), Reads("gateway.useSsl", "B", ""),
      Reads("gateway.sni", "S", "")>>

\* parseTheme, lines 335-388
ThemeSteps ==
    <<Reads("theme.name", "A", ""),
      Reads("theme.colors.bg", "C", ""), Reads("theme.colors.fg", "C", ""),
      Reads("theme.colors.muted", "C", ""), Reads("theme.colors.ok", "C", ""),
      Reads("theme.colors.warn", "C", ""), Reads("theme.colors.err", "C", ""),
      Reads("theme.colors.statusBg", "C", ""), Reads("theme.colors.statusFg", "C", ""),
      Reads("theme.cursor.style", "S", ""), Reads("theme.cursor.blink", "B", ""),
      Reads("theme.selectionInvert", "B", ""),
      Reads("theme.statusBar.heightPx", "T8", "statusBar"),
      Reads("theme.statusBar.icons", "B", "statusBar"),
      Reads("theme.statusBar.showWifi", "B", "statusBar"),
      Reads("theme.statusBar.showWebSocket", "B", "statusBar"),
      Reads("theme.statusBar.showModifiers", "B", "statusBar")>>

\* the fields a sequence of steps assigns
FieldsOf(steps) == {steps[i].field : i \in 1..Len(steps)}

\* parseColor: r, g and b start at 0 and are stored into three uint8_t
parseColor(attrs) ==
    <<QueryIntAttribute(attrs, "r", 0) % 256, QueryIntAttribute(attrs, "g", 0) % 256,
      QueryIntAttribute(attrs, "b", 0) % 256>>

\* One step on p = [config, tmp, block, crashed].  A block's tmp is not initialised:
\* it holds ub.junk until a QueryUnsignedText of the block succeeds.  strcmp on the
\* null pointer is undefined: the read of address 0 traps (ub.nullCmp = "crash"),
\* or compares whatever bytes are there ("true", "false").
Step(p, step, nodes, ub) ==
    IF p.crashed \/ step.field \notin DOMAIN nodes THEN p
    ELSE LET text == nodes[step.field]
             f == step.field
             tmp0 == IF step.block = p.block THEN p.tmp ELSE ub.junk
             q == QueryUnsignedText(text)
             tmp1 == IF q.ok THEN q.value ELSE tmp0
             p1 == [p EXCEPT !.block = step.block, !.tmp = tmp0]
         IN CASE step.kind = "S" -> [p1 EXCEPT !.config[f] = GetTextOrEmpty(text)]
              [] step.kind = "A" -> [p1 EXCEPT !.config[f] = text]
              [] step.kind = "C" -> [p1 EXCEPT !.config[f] = parseColor(text)]
              [] step.kind = "B" ->
                    IF text = Null
                    THEN IF ub.nullCmp = "crash" THEN [p1 EXCEPT !.crashed = TRUE]
                         ELSE [p1 EXCEPT !.config[f] = (ub.nullCmp = "true")]
                    ELSE [p1 EXCEPT !.config[f] = IsLiteralTrue(text)]
              [] step.kind = "U32" ->
                    IF q.ok THEN [p1 EXCEPT !.config[f] = q.value] ELSE p1
              [] step.kind = "P16" ->
                    IF q.ok THEN [p1 EXCEPT !.config[f] = q.value % 65536] ELSE p1
              [] step.kind = "T16" ->
                    [p1 EXCEPT !.tmp = tmp1, !.config[f] = tmp1 % 65536]
              [] step.kind = "T8" ->
                    [p1 EXCEPT !.tmp = tmp1, !.config[f] = tmp1 % 256]
              [] OTHER -> p1

RECURSIVE Steps(_, _, _, _)
Steps(p, steps, nodes, ub) ==
    IF steps = <<>> THEN p ELSE Steps(Step(p, Head(steps), nodes, ub), Tail(steps), nodes, ub)

\* what a parse function gives: the configuration it leaves, its return value, and
\* whether it trapped on the way
Parsed(config, steps, nodes, ub) ==
    LET p == Steps([config |-> config, tmp |-> ub.junk, block |-> "", crashed |-> FALSE],
                   steps, nodes, ub)
    IN [config |-> p.config, ok |-> ~p.crashed, crashed |-> p.crashed]

Unparsed(config) == [config |-> config, ok |-> FALSE, crashed |-> FALSE]

parseMainConfig(config, xml, ub) ==
    IF ~ParsesWithRoot(xml, "tloraTerminalConfig") THEN Unparsed(config)
    ELSE Parsed(config, MainSteps, xml.nodes, ub)

parseGatewayProfile(config, xml, ub) ==
    IF ~ParsesWithRoot(xml, "gatewayProfile") THEN Unparsed(config)
    ELSE Parsed(config, ProfileSteps, xml.nodes, ub)

parseTheme(config, xml, ub) ==
    IF ~ParsesWithRoot(xml, "theme") THEN Unparsed(config)
    ELSE Parsed(config, ThemeSteps, xml.nodes, ub)

\* an attribute of a key or modifier element, "" when it is not there
AttributeOrEmpty(attrs, name) == IF name \in DOMAIN attrs THEN attrs[name] ELSE <<>>

\* the KeyMapping pushed for one key element
KeyMappingOf(attrs) ==
    [id |-> AttributeOrEmpty(attrs, "id"), normal |-> AttributeOrEmpty(attrs, "normal"),
     shift |-> AttributeOrEmpty(attrs, "shift"),
     code |-> QueryIntAttribute(attrs, "code", -1)]

\* the ModifierDef pushed for one modifier element
ModifierDefOf(attrs) ==
    [id |-> AttributeOrEmpty(attrs, "id"), mode |-> AttributeOrEmpty(attrs, "mode")]

parseKeymap(config, xml) ==
    IF ~ParsesWithRoot(xml, "keymap") THEN Unparsed(config)
    ELSE LET nodes == xml.nodes
             keyList == IF "keymap.keys" \in DOMAIN nodes
                     THEN [i \in 1..Len(nodes["keymap.keys"]) |->
                              KeyMappingOf(nodes["keymap.keys"][i])]
                     ELSE <<>>
             modifiers == IF "keymap.modifiers" \in DOMAIN nodes
                          THEN [i \in 1..Len(nodes["keymap.modifiers"]) |->
                                   ModifierDefOf(nodes["keymap.modifiers"][i])]
                          ELSE <<>>
         IN [config |-> [config EXCEPT
                            !["keymap.name"] = IF "keymap.name" \in DOMAIN nodes
                                               THEN nodes["keymap.name"] ELSE @,
                            !["keymap.keys"] = keyList,
                            !["keymap.modifiers"] = modifiers],
             ok |-> TRUE, crashed |-> FALSE]

\* "Ensure path starts with /"
WithSlash(path) == IF path # <<>> /\ path[1] = 47 THEN path ELSE <<47>> \o path

\* The loader and what it works on as one record, so that a member function is a
\* function from state to state; ret is "true", "false", or "crash" when the call
\* trapped and did not return.
CfgCur == [configLoader |-> configLoader, nvs |-> nvs, fs |-> fs, ret |-> ret]

CfgBecomes(cs) ==
    /\ configLoader' = cs.configLoader
    /\ nvs' = cs.nvs
    /\ fs' = cs.fs
    /\ ret' = cs.ret
    /\ UNCHANGED menuVars

Returns(cs, value) == [cs EXCEPT !.ret = IF value THEN "true" ELSE "false"]

\* a parse result taken over into the loader
Taken(cs, parsed) ==
    IF parsed.crashed
    THEN [cs EXCEPT !.configLoader.config = parsed.config, !.ret = "crash"]
    ELSE Returns([cs EXCEPT !.configLoader.config = parsed.config], parsed.ok)

\* ConfigLoader::begin(): the mount may fail unless the file system is mounted
\* already, and so may _prefs.begin
begin(cs, mounted, opened) ==
    IF ~(mounted \/ cs.fs.mounted) THEN Returns(cs, FALSE)
    ELSE Returns([cs EXCEPT !.fs.mounted = TRUE, !.configLoader.nvsOpen = opened \/ @],
                 TRUE)

loadTheme(cs, ub) ==
    LET themeFile == cs.configLoader.config["ui.themeFile"]
        xml == readFile(cs.fs, WithSlash(themeFile))
    IN IF themeFile = <<>> THEN Returns(cs, FALSE)
       ELSE IF isEmpty(xml) THEN Returns(cs, FALSE)
       ELSE Taken(cs, parseTheme(cs.configLoader.config, xml, ub))

loadKeymap(cs) ==
    LET keymapFile == cs.configLoader.config["input.keyboard.keymapFile"]
        xml == readFile(cs.fs, WithSlash(keymapFile))
    IN IF keymapFile = <<>> THEN Returns(cs, FALSE)
       ELSE IF isEmpty(xml) THEN Returns(cs, FALSE)
       ELSE Taken(cs, parseKeymap(cs.configLoader.config, xml))

saveWifiToNvs(cs, ssid, password) ==
    IF ~cs.configLoader.nvsOpen THEN Returns(cs, FALSE)
    ELSE Returns([cs EXCEPT !.nvs.wifi_ssid = ssid, !.nvs.wifi_pass = password,
                            !.configLoader.config["wifi.ssid"] = ssid,
                            !.configLoader.config["wifi.password"] = password], TRUE)

loadWifiFromNvs(cs) ==
    IF ~cs.configLoader.nvsOpen THEN Returns(cs, FALSE)
    ELSE IF Len(cs.nvs.wifi_ssid) > 0
    THEN Returns([cs EXCEPT !.configLoader.config["wifi.ssid"] = cs.nvs.wifi_ssid,
                            !.configLoader.config["wifi.password"] = cs.nvs.wifi_pass],
                 TRUE)
    ELSE Returns(cs, FALSE)

\* saveLastProfile that writes nothing
SaveLastProfileNowhere(cs, profileName) == Returns(cs, cs.configLoader.nvsOpen)

saveLastProfile(cs, profileName) ==
    IF ~cs.configLoader.nvsOpen THEN Returns(cs, FALSE)
    ELSE Returns([cs EXCEPT !.nvs.last_profile = profileName], TRUE)

getLastProfile(cs) == IF ~cs.configLoader.nvsOpen THEN <<>> ELSE cs.nvs.last_profile

clearNvs(cs) ==
    IF ~cs.configLoader.nvsOpen THEN Returns(cs, FALSE)
    ELSE Returns([cs EXCEPT !.nvs = NoNvs], TRUE)

\* loadConfig after parseMainConfig has succeeded (lines 138-155)
SecondaryPasses(cs, ub) ==
    LET c1 == IF cs.configLoader.nvsOpen THEN loadWifiFromNvs(cs) ELSE Returns(cs, TRUE)
        c2 == IF Len(c1.configLoader.config["ui.themeFile"]) > 0 THEN loadTheme(c1, ub)
              ELSE c1
        c3 == IF c2.ret = "crash" THEN c2
              ELSE IF Len(c2.configLoader.config["input.keyboard.keymapFile"]) > 0
              THEN loadKeymap(c2)
              ELSE c2
    IN IF c3.ret = "crash" THEN c3
       ELSE Returns([c3 EXCEPT !.configLoader.loaded = TRUE], TRUE)

loadConfig(cs, path, ub) ==
    LET xml == readFile(cs.fs, path)
        parsed == parseMainConfig(cs.configLoader.config, xml, ub)
    IN IF isEmpty(xml) THEN Returns([cs EXCEPT !.configLoader.loaded = TRUE], TRUE)
       ELSE IF parsed.crashed THEN Taken(cs, parsed)
       ELSE IF ~parsed.ok THEN Returns(cs, FALSE)
       ELSE SecondaryPasses([cs EXCEPT !.configLoader.config = parsed.config], ub)

\* the path loadGatewayProfile builds
ProfilePath(profileName) == ProfileDir \o profileName \o DotXml

\* loadGatewayProfile that stores the name before it reads the profile
LoadProfileStoresFirst(cs, profileName, ub) ==
    LET c0 == IF cs.configLoader.nvsOpen THEN saveLastProfile(cs, profileName) ELSE cs
        xml == readFile(c0.fs, ProfilePath(profileName))
        parsed == parseGatewayProfile(c0.configLoader.config, xml, ub)
    IN IF isEmpty(xml) THEN Returns(c0, FALSE) ELSE Taken(c0, parsed)

loadGatewayProfile(cs, profileName, ub) ==
    LET xml == readFile(cs.fs, ProfilePath(profileName))
        parsed == parseGatewayProfile(cs.configLoader.config, xml, ub)
        c1 == Taken(cs, parsed)
    IN IF isEmpty(xml) THEN Returns(cs, FALSE)
       ELSE IF parsed.crashed \/ ~parsed.ok THEN c1
       ELSE IF c1.configLoader.nvsOpen THEN Returns(saveLastProfile(c1, profileName), TRUE)
       ELSE Returns(c1, TRUE)

(***************************************************************************)
(* The menu machine: one action per input event.  The menu is opened from  *)
(* Hidden (settingsUIShow), then driven by keys, the rotary encoder, the   *)
(* long press that cancels, and the scan poll of the main loop.            *)
(***************************************************************************)
KeyInputs == {KEY_ENTER, KEY_BACKSPACE, KEY_Q, KEY_7}

\* Events are explored until MaxWrites writes of the store have been made.
Budget == writes < MaxWrites

\* A text capture takes at most MaxKeys key presses.
Within(st) == st.keys <= MaxKeys

Show == /\ Budget
        /\ currentMenu = "Hidden"
        /\ \E st \in {settingsUIShow(Cur)} : Becomes(st)

Key == /\ Budget
       /\ \E key \in KeyInputs :
              \E st \in {settingsUIHandleKey(Cur, key)} : Within(st) /\ Becomes(st)

Rotary == /\ Budget
          /\ \E direction \in {-1, 0, 1} :
                 \E st \in {settingsUIHandleRotary(Cur, direction)} : Becomes(st)

Cancel == /\ Budget
          /\ \E st \in {settingsUICancelInput(Cur)} : Becomes(st)

ScanPoll == /\ Budget
            /\ \E reply \in scanComplete(Cur) :
                   \E st \in {settingsUIUpdateWiFiList(Cur, reply)} : Becomes(st)

\* power is cycled between two events
Restart == \E st \in {Boot(store, writes)} : Becomes(st)

MenuStarts(st) ==
    /\ settings = st.settings
    /\ store = st.store
    /\ writes = st.writes
    /\ diag = st.diag
    /\ currentMenu = st.currentMenu
    /\ selectedIndex = st.selectedIndex
    /\ scrollOffset = st.scrollOffset
    /\ scanSSIDs = st.scanSSIDs
    /\ scanCount = st.scanCount
    /\ scanning = st.scanning
    /\ editingNetworkIndex = st.editingNetworkIndex
    /\ editingField = st.editingField
    /\ editingRemoteServer = st.editingRemoteServer
    /\ serverEditField = st.serverEditField
    /\ wifiSSID = st.wifiSSID
    /\ wifiPass = st.wifiPass
    /\ inputTA = st.inputTA
    /\ inputText = st.inputText
    /\ drawn = st.drawn
    /\ drawnSaved = st.drawnSaved
    /\ wifiScan = st.wifiScan
    /\ keys = st.keys

Starts(st) == MenuStarts(st) /\ LoaderIdle

RECURSIVE AddNetworks(_, _)
\* st after k more networks "q"/"q" were added through the menu
AddNetworks(st, k) ==
    IF k = 0 THEN st ELSE AddNetworks(saveWiFiNetwork(st, <<KEY_Q>>, <<KEY_Q>>), k - 1)

\* The stored blobs a power-up can find: none (first boot), and the blob an earlier
\* session left after filling the network list.
InitialStores ==
    {NoBlob, AddNetworks(Boot(NoBlob, 0), MAX_WIFI_NETWORKS - 1).store}

\* writes counts from the write that produced the stored blob of the power-up
Init == \E blob \in InitialStores : Starts([Boot(blob, 0) EXCEPT !.writes = 1])

Next == Show \/ Key \/ Rotary \/ Cancel \/ ScanPoll \/ Restart

Spec == Init /\ [][Next]_vars

(***************************************************************************)
(* Properties of the menu (checked under Spec)                             *)
(***************************************************************************)
ListScreens == {"Main", "Display", "WifiList", "WifiScan", "ServerLocal",
                "ServerRemote", "System", "About"}

\* the number of rows of the current list screen
ItemCount ==
    CASE currentMenu = "Main" -> 7
      [] currentMenu = "Display" -> 3
      [] currentMenu = "WifiList" -> 3 + settings.wifiNetworkCount
      [] currentMenu = "WifiScan" -> 1 + scanCount
      [] currentMenu \in {"ServerLocal", "ServerRemote"} -> 10
      [] currentMenu = "System" -> 9
      [] currentMenu = "About" -> 1
      [] OTHER -> 0

\* the state after each event the menu can take next
AfterEvent ==
    {settingsUIShow(Cur), settingsUICancelInput(Cur)}
        \cup {settingsUIHandleKey(Cur, key) : key \in KeyInputs}
        \cup {settingsUIHandleRotary(Cur, direction) : direction \in {-1, 0, 1}}
        \cup {settingsUIUpdateWiFiList(Cur, reply) : reply \in scanComplete(Cur)}

\* C5: whenever a screen is drawn, the stored blob is byte-equal to the working
\* record: every change the menu makes has been saved before the redraw.
SaveBeforeRedraw == drawnSaved

\* C5 witness: the Display screen redrawn after a brightness step, the step stored
DisplayRedrawnAfterAdjust ==
    /\ drawn = "Display" /\ selectedIndex = 1
    /\ settings.brightness = 225 /\ store.data.brightness = 225
    /\ writes = MaxWrites

\* a text capture is open: the WiFi add flow or a server field editor
InCapture ==
    /\ inputTA
    /\ \/ currentMenu = "WifiAdd"
       \/ currentMenu \in {"ServerLocal", "ServerRemote"} /\ serverEditField >= 0

\* C6: cancelling a text capture leaves the working record and the store as they
\* were and returns to the owning list screen with row 0 selected: WifiList for the
\* WiFi add flow, the server screen the editor was opened from for a server field.
CancelReturnsToOwner ==
    InCapture =>
        \A st \in {settingsUICancelInput(Cur)} :
            /\ st.settings = settings /\ st.store = store
            /\ st.selectedIndex = 0
            /\ st.currentMenu = IF currentMenu = "WifiAdd" THEN "WifiList"
                                ELSE currentMenu

\* C7: on a list screen the selected row is a row of the screen.
SelectionInRange ==
    currentMenu \in ListScreens => 0 <= selectedIndex /\ selectedIndex < ItemCount

\* C7 witness: the last row of a full WiFi list is selected
LastRowOfFullList ==
    /\ currentMenu = "WifiList" /\ drawn = "WifiList"
    /\ settings.wifiNetworkCount = MAX_WIFI_NETWORKS
    /\ selectedIndex = MAX_WIFI_NETWORKS + 2

\* C8: on Main, Display, WifiList, WifiScan, the server screens and System, a move
\* down on the last row selects row 0 and a move up on row 0 selects the last row.
WrapsAtBothEnds ==
    currentMenu \in ListScreens \ {"About"} =>
        /\ selectedIndex = ItemCount - 1 =>
               settingsUIHandleRotary(Cur, 1).selectedIndex = 0
        /\ selectedIndex = 0 =>
               settingsUIHandleRotary(Cur, -1).selectedIndex = ItemCount - 1

\* C9: on a list screen the selected row lies inside the visible window of
\* maxVisibleItems rows that starts at scrollOffset.
SelectionVisible ==
    currentMenu \in ListScreens =>
        /\ scrollOffset >= 0
        /\ scrollOffset <= selectedIndex
        /\ selectedIndex < scrollOffset + 5

\* C10: an event that makes another screen the current one leaves scrollOffset = 0;
\* a move that stays on its screen resets a non-zero scrollOffset to 0 only when the
\* newly selected row lies above the window.
EnteringResetsScroll ==
    /\ \A st \in AfterEvent :
           (st.currentMenu # currentMenu /\ st.currentMenu # "Hidden") =>
               st.scrollOffset = 0
    /\ \A direction \in {-1, 1} :
           \A st \in {settingsUIHandleRotary(Cur, direction)} :
               (st.currentMenu = currentMenu /\ scrollOffset # 0 /\ st.scrollOffset = 0)
                   => st.selectedIndex < scrollOffset

RECURSIVE TypeText(_, _)
\* the state after the keys of text have been pressed one after the other
TypeText(st, text) ==
    IF text = <<>> THEN st
    ELSE TypeText(settingsUIHandleKey(st, Head(text)), Tail(text))

\* passwords typed in the second step of the WiFi add flow
Passwords == {<<>>, <<KEY_7>>, <<KEY_7, KEY_Q>>}

\* st is the state `from` with network [ssid, password, enabled] appended by one save
Appended(from, st, ssid, password) ==
    LET n == from.settings.wifiNetworkCount
    IN /\ st.settings.wifiNetworkCount = n + 1
       /\ st.settings.wifiNetworks[n] = [ssid |-> ssid, password |-> password,
                                         enabled |-> 1]
       /\ \A i \in 0..(n - 1) : st.settings.wifiNetworks[i] = from.settings.wifiNetworks[i]
       /\ st.writes = from.writes + 1
       /\ st.store = Blob(st.settings)
       /\ st.currentMenu = "WifiList"

\* the two commits of the WiFi add flow, from the SSID step and from the password
\* step (where a scan result enters the flow), do what Appended says
AddFlowFrom(st0) ==
    /\ (st0.editingField = 0 /\ st0.inputText # <<>>) =>
           \A p \in Passwords :
               \A st1 \in {settingsUIHandleKey(st0, KEY_ENTER)} :
                   /\ st1.settings = st0.settings /\ st1.writes = st0.writes
                   /\ st1.currentMenu = "WifiAdd" /\ st1.inputTA /\ st1.editingField = 1
                   /\ Appended(st0, settingsUIHandleKey(TypeText(st1, p), KEY_ENTER),
                               st0.inputText, p)
    /\ (st0.editingField = 1 /\ strlen(st0.wifiSSID) > 0) =>
           Appended(st0, settingsUIHandleKey(st0, KEY_ENTER),
                    CStr(st0.wifiSSID), st0.inputText)

Parent(menu) ==
    CASE menu = "Main" -> "Hidden"
      [] menu = "WifiScan" -> "WifiList"
      [] OTHER -> "Main"

\* C13: on every list screen, select while row 0 is selected moves to the parent
\* screen (Main for Display, WifiList, ServerLocal, ServerRemote, System and About,
\* WifiList for WifiScan, Hidden for Main) and changes neither the working record
\* nor the stored blob.
SelectOnBackRow ==
    (currentMenu \in ListScreens /\ selectedIndex = 0) =>
        \A st \in {settingsUIHandleRotary(Cur, 0), settingsUIHandleKey(Cur, KEY_ENTER)} :
            /\ st.currentMenu = Parent(currentMenu)
            /\ st.settings = settings
            /\ st.store = store
            /\ st.writes = writes

\* C13 witness: the scan results are shown with the back row selected
BackRowOfScanList ==
    /\ Budget
    /\ currentMenu = "WifiScan"
    /\ selectedIndex = 0
    /\ scanCount > 0
    /\ drawn = "WifiScan"

\* what one input event makes of st: a key, a turn or press of the encoder, the
\* long press that cancels, or a poll of the scan
AfterOneEvent(st) ==
    {settingsUIHandleKey(st, key) : key \in KeyInputs}
        \cup {settingsUIHandleRotary(st, direction) : direction \in {-1, 0, 1}}
        \cup {settingsUICancelInput(st)}
        \cup {settingsUIUpdateWiFiList(st, reply) : reply \in scanComplete(st)}

\* C14: the menu starts in Hidden; settingsUIShow from any state yields Main with
\* selectedIndex = 0 and scrollOffset = 0; settingsUIHide from any state yields
\* Hidden; settingsUIIsVisible is true exactly when the state is not Hidden; and
\* Hidden is left only through settingsUIShow: no input event leaves it.
HiddenUntilShown ==
    /\ \A blob \in InitialStores : Constructed(blob, 0).currentMenu = "Hidden"
    /\ \A st \in {settingsUIShow(Cur)} :
           /\ st.currentMenu = "Main"
           /\ st.selectedIndex = 0
           /\ st.scrollOffset = 0
    /\ settingsUIIsVisible(Cur) <=> currentMenu # "Hidden"
    /\ \A st \in {settingsUIHide(Cur)} :
           /\ st.currentMenu = "Hidden"
           /\ ~settingsUIIsVisible(st)
           /\ \A after \in AfterOneEvent(st) : after.currentMenu = "Hidden"

\* the settings field a move steps on the selected row; "none" on the other rows
AdjustedField ==
    CASE currentMenu = "Display" /\ selectedIndex = 1 -> "brightness"
      [] currentMenu = "Display" /\ selectedIndex = 2 -> "theme"
      [] currentMenu = "System" /\ selectedIndex = 2 -> "volume"
      [] currentMenu = "System" /\ selectedIndex = 4 -> "hapticIntensity"
      [] OTHER -> "none"

\* the records a and b agree on every field that is not in fields
SameExcept(a, b, fields) == \A f \in (DOMAIN a) \ fields : a[f] = b[f]

\* C15: a move on an adjustable row (Display rows 1 and 2, System rows 2 and 4)
\* leaves the screen, selectedIndex and scrollOffset as they are and changes at most
\* the settings field of that row (and the checksum settingsSave stamps); a move on
\* any other row of a list screen changes selectedIndex and scrollOffset only, and
\* neither the working record nor the stored blob.  (With no text area open,
\* serverEditField is not read; the redraw of a server screen sets it to -1.)
MoveAdjustsOrNavigates ==
    (currentMenu \in ListScreens /\ ~inputTA) =>
        \A direction \in {-1, 1} :
            \A st \in {settingsUIHandleRotary(Cur, direction)} :
                IF AdjustedField # "none"
                THEN /\ st.currentMenu = currentMenu
                     /\ st.selectedIndex = selectedIndex
                     /\ st.scrollOffset = scrollOffset
                     /\ SameExcept(st.settings, settings, {AdjustedField, "checksum"})
                     /\ SameExcept(st, Cur, {"settings", "store", "writes", "drawn",
                                             "drawnSaved"})
                ELSE SameExcept(st, Cur, {"selectedIndex", "scrollOffset", "drawn",
                                          "drawnSaved", "serverEditField"})

\* C15 witness: the volume row of the System screen with a step of the volume stored
VolumeRowAfterStep ==
    /\ currentMenu = "System"
    /\ selectedIndex = 2
    /\ drawn = "System"
    /\ settings.volume \in {40, 60}
    /\ store = Blob(settings)

\* the ranges of the fields of a working record
InRange(s) ==
    /\ s.brightness \in 0..255
    /\ ThemeInt(s.theme) \in 0..(THEME_COUNT - 1)
    /\ s.volume \in 0..100
    /\ s.hapticIntensity \in 0..100
    /\ s.wifiNetworkCount \in 0..MAX_WIFI_NETWORKS
    /\ s.version = SETTINGS_VERSION

\* values at, next to and between the ends of the ranges
BrightnessSteps == {0, 10, 24, 200, 231, 255}
PercentSteps == {0, 5, 50, 95, 100}

\* C16: after settingsInit and any sequence of menu events the working record has
\* brightness in 0..255, one of the five palettes as theme, volume and
\* hapticIntensity in 0..100, at most five networks and version SETTINGS_VERSION.
\* The second part steps the adjustable fields from values that take more steps to
\* reach than the explored runs make.
RecordInRange ==
    /\ InRange(settings)
    /\ (currentMenu = "Display" /\ selectedIndex = 1) =>
           \A b \in BrightnessSteps, direction \in {-1, 1} :
               InRange(settingsUIHandleRotary(
                           [Cur EXCEPT !.settings.brightness = b], direction).settings)
    /\ (currentMenu = "Display" /\ selectedIndex = 2) =>
           \A t \in 0..(THEME_COUNT - 1), direction \in {-1, 1} :
               InRange(settingsUIHandleRotary(
                           [Cur EXCEPT !.settings.theme = U32(t)], direction).settings)
    /\ (currentMenu = "System" /\ selectedIndex = 2) =>
           \A v \in PercentSteps, direction \in {-1, 1} :
               InRange(settingsUIHandleRotary(
                           [Cur EXCEPT !.settings.volume = v], direction).settings)
    /\ (currentMenu = "System" /\ selectedIndex = 4) =>
           \A h \in PercentSteps, direction \in {-1, 1} :
               InRange(settingsUIHandleRotary(
                           [Cur EXCEPT !.settings.hapticIntensity = h],
                           direction).settings)

\* C16 witness: the theme stepped back from the first palette, to the last
ThemeWrappedToLast ==
    /\ currentMenu = "Display"
    /\ selectedIndex = 2
    /\ ThemeInt(settings.theme) = THEME_COUNT - 1
    /\ store = Blob(settings)

\* the editor of a server field is open
InServerEditor ==
    /\ inputTA
    /\ currentMenu \in {"ServerLocal", "ServerRemote"}
    /\ serverEditField \in 0..3

\* the field of ServerConfig_t the editor was opened on, and the bytes it takes
EditedField == <<"host", "port", "username", "password">>[serverEditField + 1]
EditedLimit == <<MAX_HOST_LEN - 1, 0, MAX_USER_LEN - 1, MAX_USER_LEN - 1>>[serverEditField + 1]

\* text is the decimal writing of a port number
IsPortText(text) ==
    /\ text # <<>>
    /\ \A i \in 1..Len(text) : IsDigit(text[i])
    /\ Digits(text, 0) \in 1..65535

\* C19: Enter in the editor of a server field writes the captured text into the
\* edited field (host, port, username or password) of the server being edited,
\* leaves the other server and every other settings field as they were, saves once
\* and returns to the server screen the editor was opened from, with selectedIndex
\* and scrollOffset 0.
ServerCommitWritesField ==
    InServerEditor =>
        \A st \in {settingsUIHandleKey(Cur, KEY_ENTER)} :
            LET which == IF currentMenu = "ServerRemote" THEN "remoteServer"
                         ELSE "localServer"
            IN /\ SameExcept(st.settings, settings, {which, "checksum"})
               /\ SameExcept(st.settings[which], settings[which], {EditedField})
               /\ EditedField # "port" =>
                      st.settings[which][EditedField] =
                          SubSeq(inputText, 1, Min(Len(inputText), EditedLimit))
               /\ (EditedField = "port" /\ IsPortText(inputText)) =>
                      st.settings[which].port = Digits(inputText, 0)
               /\ st.writes = writes + 1
               /\ st.store = Blob(st.settings)
               /\ st.currentMenu = currentMenu
               /\ st.selectedIndex = 0
               /\ st.scrollOffset = 0
               /\ ~st.inputTA

\* C19 witness: the port editor of the local server has committed "227"
LocalPortCommitted ==
    /\ currentMenu = "ServerLocal"
    /\ selectedIndex = 0
    /\ drawn = "ServerLocal"
    /\ settings.localServer.port = 227
    /\ settings.remoteServer.port = 22
    /\ store = Blob(settings)

\* texts that are no port number: empty, not a number, zero
BadPortTexts == {<<>>, <<KEY_Q>>, <<48>>}

\* st after the text of the open editor was erased and text typed in its place
Retyped(st, text) ==
    TypeText(st, [i \in 1..Len(st.inputText) |-> KEY_BACKSPACE] \o text)

\* from row 0 of a server screen: down to row 3 "Port", select, retype, Enter
PortEditedTo(st, text) ==
    LET onRow == settingsUIHandleRotary(settingsUIHandleRotary(
                     settingsUIHandleRotary(st, 1), 1), 1)
        opened == settingsUIHandleRotary(onRow, 0)
    IN settingsUIHandleKey(Retyped(opened, text), KEY_ENTER)

\* C20: committing the port editor with a text that is no port number (empty, not
\* a number, or zero) leaves the port of the server at the value it had before the
\* edit.
BadPortTextKeepsPort ==
    (currentMenu \in {"ServerLocal", "ServerRemote"} /\ ~inputTA /\ selectedIndex = 0) =>
        \A text \in BadPortTexts :
            \A st \in {PortEditedTo(Cur, text)} :
                /\ st.currentMenu = currentMenu
                /\ Server(st).port = Server(Cur).port

\* C21: while the scan started by settingsUIStartWiFiScan is outstanding, a poll
\* (settingsUIUpdateWiFiList) changes nothing: scanning stays true, scanCount 0,
\* screen and selection as they are; the first poll after the scan has ended with n
\* results sets scanning = false and scanCount = min(n, 20); every later poll
\* without a new scan changes nothing.
PollsAreIdempotent ==
    IF wifiScan = "running"
    THEN /\ scanning
         /\ scanCount = 0
         /\ settingsUIUpdateWiFiList(Cur, [n |-> -1, found |-> <<>>]) = Cur
         /\ \A n \in 0..(MAX_SCAN_RESULTS + 1) :
                \A st \in {settingsUIUpdateWiFiList(Cur, [n |-> n, found |-> Found(n)])} :
                    /\ ~st.scanning
                    /\ st.scanCount = Min(n, MAX_SCAN_RESULTS)
                    /\ \A reply \in scanComplete(st) :
                           settingsUIUpdateWiFiList(st, reply) = st
    ELSE \A reply \in scanComplete(Cur) : settingsUIUpdateWiFiList(Cur, reply) = Cur

\* C21 witness: a poll has found the scan ended with MaxFound results
ScanResultsTaken ==
    /\ currentMenu = "WifiScan"
    /\ drawn = "WifiScan"
    /\ ~scanning
    /\ scanCount = MaxFound
    /\ wifiScan = "idle"

\* the stored blob is the working record of st byte for byte, and the checksum
\* field of the record verifies
Written(st) ==
    /\ st.store = Blob(st.settings)
    /\ st.settings.checksum = settingsCalculateChecksum(st.settings)

\* C31: after settingsInit and after every input event (key, rotary move or click,
\* cancel, scan poll, show, hide) the stored blob is byte-equal to the working
\* record and the checksum field verifies: no event ends with a change of the
\* working record that has not been written.  Hide, and the events that follow a
\* hide from any screen or capture, are applied to every reachable state.
NoUnsavedChange ==
    /\ Written(Cur)
    /\ \A hidden \in {settingsUIHide(Cur)} :
           /\ hidden.settings = settings /\ hidden.store = store
           /\ \A st \in AfterOneEvent(hidden) \cup {settingsUIShow(hidden)} :
                  (st.settings = settings /\ st.store = store) \/ Written(st)

\* C31 witness: the sound toggle of the System screen was flipped and written
SoundToggleWritten ==
    /\ currentMenu = "System" /\ drawn = "System"
    /\ selectedIndex = 1
    /\ settings.soundEnabled = 0
    /\ store.data.soundEnabled = 0
    /\ writes = MaxWrites

\* the two forms of the select event: the Enter key and the click of the encoder
Selected(st) == {settingsUIHandleKey(st, KEY_ENTER), settingsUIHandleRotary(st, 0)}

\* C32: select on WifiList row i + 2 with 0 <= i < wifiNetworkCount flips the enabled
\* flag of network i and nothing else of the record (ssid, password, the other
\* networks and wifiNetworkCount are unchanged; the save stamps the checksum), saves
\* exactly once and stays on WifiList with selectedIndex and scrollOffset unchanged;
\* select on the last row (wifiNetworkCount + 2) opens WifiAdd at the SSID step and
\* changes neither the record nor the store.
NetworkRowTogglesEnabled ==
    currentMenu = "WifiList" =>
        \A st \in Selected(Cur) :
            LET i == selectedIndex - 2
                n == settings.wifiNetworkCount
            IN /\ (0 <= i /\ i < n) =>
                      /\ st.settings.wifiNetworks[i].enabled =
                             1 - settings.wifiNetworks[i].enabled
                      /\ SameExcept(st.settings.wifiNetworks[i],
                                    settings.wifiNetworks[i], {"enabled"})
                      /\ \A j \in (0..(MAX_WIFI_NETWORKS - 1)) \ {i} :
                             st.settings.wifiNetworks[j] = settings.wifiNetworks[j]
                      /\ SameExcept(st.settings, settings, {"wifiNetworks", "checksum"})
                      /\ st.writes = writes + 1
                      /\ st.store = Blob(st.settings)
                      /\ st.drawn = "WifiList"
                      /\ SameExcept(st, Cur, {"settings", "store", "writes", "drawn",
                                              "drawnSaved"})
               /\ selectedIndex = n + 2 =>
                      /\ st.currentMenu = "WifiAdd"
                      /\ st.editingField = 0
                      /\ st.inputTA /\ st.inputText = <<>> /\ st.wifiSSID = <<>>
                      /\ st.settings = settings
                      /\ st.store = store
                      /\ st.writes = writes

\* C32 witness: the third of five networks was switched off from its row
ThirdNetworkSwitchedOff ==
    /\ currentMenu = "WifiList" /\ drawn = "WifiList"
    /\ selectedIndex = 4
    /\ settings.wifiNetworkCount = MAX_WIFI_NETWORKS
    /\ settings.wifiNetworks[2].enabled = 0
    /\ settings.wifiNetworks[1].enabled = 1
    /\ store = Blob(settings)

\* C33: the adjust step is exact.  On Display row 1 a move in direction d sets
\* brightness to min(255, max(10, brightness + 25 * d)), and no event of the menu
\* takes the brightness below 10; on Display row 2 the theme steps by d and wraps
\* (the first palette follows the last, the last precedes the first); on System
\* rows 2 and 4 a move sets volume, respectively hapticIntensity, to
\* min(100, max(0, value + 10 * d)).  The fields are stepped from values at and
\* next to the ends of their ranges.
AdjustStepExact ==
    /\ settings.brightness >= 10
    /\ \A st \in AfterEvent : st.settings.brightness >= 10
    /\ (currentMenu = "Display" /\ selectedIndex = 1) =>
           \A b \in BrightnessSteps, d \in {-1, 1} :
               settingsUIHandleRotary([Cur EXCEPT !.settings.brightness = b],
                                      d).settings.brightness
                   = Min(255, Max(10, b + 25 * d))
    /\ (currentMenu = "Display" /\ selectedIndex = 2) =>
           \A t \in 0..(THEME_COUNT - 1), d \in {-1, 1} :
               ThemeInt(settingsUIHandleRotary([Cur EXCEPT !.settings.theme = U32(t)],
                                               d).settings.theme)
                   = (t + d + THEME_COUNT) % THEME_COUNT
    /\ (currentMenu = "System" /\ selectedIndex = 2) =>
           \A v \in PercentSteps, d \in {-1, 1} :
               settingsUIHandleRotary([Cur EXCEPT !.settings.volume = v],
                                      d).settings.volume
                   = Min(100, Max(0, v + 10 * d))
    /\ (currentMenu = "System" /\ selectedIndex = 4) =>
           \A h \in PercentSteps, d \in {-1, 1} :
               settingsUIHandleRotary([Cur EXCEPT !.settings.hapticIntensity = h],
                                      d).settings.hapticIntensity
                   = Min(100, Max(0, h + 10 * d))

\* C33 witness: the haptic intensity was stepped up from 80 on its row and stored
IntensitySteppedUp ==
    /\ currentMenu = "System" /\ drawn = "System"
    /\ selectedIndex = 4
    /\ settings.hapticIntensity = 90
    /\ store = Blob(settings)

\* C34: with MAX_WIFI_NETWORKS networks stored, Enter at the password step of the
\* WiFi add flow leaves the working record and the stored blob as they are (no
\* entry overwritten, the count unchanged, no save) and returns to WifiList with
\* selectedIndex = 0 and the capture buffers cleared.
FullListCommitStoresNothing ==
    (inputTA /\ currentMenu = "WifiAdd" /\ editingField = 1
        /\ settings.wifiNetworkCount = MAX_WIFI_NETWORKS) =>
        \A p \in Passwords \cup {inputText} :
            \A st \in {settingsUIHandleKey([Cur EXCEPT !.inputText = p], KEY_ENTER)} :
                /\ st.settings = settings
                /\ st.store = store
                /\ st.writes = writes
                /\ st.currentMenu = "WifiList"
                /\ st.drawn = "WifiList"
                /\ st.selectedIndex = 0
                /\ st.wifiSSID = <<>> /\ st.wifiPass = <<>> /\ st.editingField = 0
                /\ ~st.inputTA /\ st.inputText = <<>>

\* C34 witness: the list is full and the flow stands at the password step with an
\* SSID and a password typed
FullListAtPasswordStep ==
    /\ inputTA /\ currentMenu = "WifiAdd" /\ editingField = 1
    /\ settings.wifiNetworkCount = MAX_WIFI_NETWORKS
    /\ wifiSSID = <<KEY_Q>> /\ inputText = <<KEY_7>>

\* every network of the record s below wifiNetworkCount has a non-empty ssid
SsidsNonEmpty(s) ==
    \A i \in 0..(s.wifiNetworkCount - 1) : strlen(s.wifiNetworks[i].ssid) > 0

\* C35: no network with an empty SSID is ever stored.  Enter at the SSID step of
\* the WiFi add flow with an empty buffer keeps the flow at the SSID step and
\* changes neither the record nor the store; selecting a scan result whose SSID is
\* empty enters the flow at the SSID step; and in every reachable state, and after
\* every event from it, each entry below wifiNetworkCount of the working record and
\* of the stored blob has a non-empty ssid.
NoEmptySsidStored ==
    /\ SsidsNonEmpty(settings)
    /\ SsidsNonEmpty(store.data)
    /\ \A st \in AfterEvent : SsidsNonEmpty(st.settings) /\ SsidsNonEmpty(st.store.data)
    /\ (inputTA /\ currentMenu = "WifiAdd" /\ editingField = 0) =>
           \A st \in {settingsUIHandleKey([Cur EXCEPT !.inputText = <<>>], KEY_ENTER)} :
               /\ st.currentMenu = "WifiAdd"
               /\ st.editingField = 0
               /\ st.inputTA
               /\ st.wifiSSID = <<>>
               /\ st.settings = settings
               /\ st.store = store
               /\ st.writes = writes
    /\ (currentMenu = "WifiScan" /\ selectedIndex \in 1..scanCount) =>
           \A st \in Selected(Cur) :
               /\ st.currentMenu = "WifiAdd"
               /\ st.inputTA
               /\ st.editingField = IF strlen(scanSSIDs[selectedIndex]) = 0 THEN 0 ELSE 1
               /\ st.settings = settings

\* C35 witness: the flow was entered at the SSID step from the row of a scan result
\* that has no SSID
HiddenNetworkSelected ==
    /\ currentMenu = "WifiAdd" /\ inputTA
    /\ editingField = 0
    /\ wifiSSID = <<>>
    /\ scanCount = MaxFound
    /\ selectedIndex = 2
    /\ scanSSIDs[2] = <<>>

\* C36: a move while a text capture is open (the WiFi add flow at either step, or
\* the editor of a server field) changes nothing: screen, selectedIndex,
\* scrollOffset, the edit target, the capture in progress and the working record
\* are as before, and the Enter that follows commits what it would have committed
\* without the move.
MoveDuringCaptureChangesNothing ==
    InCapture =>
        \A direction \in {-1, 1} :
            \A st \in {settingsUIHandleRotary(Cur, direction)} :
                /\ st = Cur
                /\ settingsUIHandleKey(st, KEY_ENTER) = settingsUIHandleKey(Cur, KEY_ENTER)

\* the row a move in direction d selects when row r of the current screen is the
\* selected one (the row a move selects depends on the screen, the selected row
\* and the number of rows only, and a move changes none but the selected row)
RowAfterMove(r, d) ==
    settingsUIHandleRotary([Cur EXCEPT !.selectedIndex = r], d).selectedIndex

RECURSIVE RowsByMoves(_, _, _)
\* the rows that at most k moves select, starting from one of rows; next[r] are the
\* rows one move selects from row r
RowsByMoves(next, rows, k) ==
    LET more == rows \cup UNION {next[r] : r \in rows}
    IN IF k = 0 \/ more = rows THEN rows ELSE RowsByMoves(next, more, k - 1)

\* the rows of the current list screen that moves alone can select
ReachableRows ==
    LET next == [r \in 0..(ItemCount - 1) |->
                    {RowAfterMove(r, -1), RowAfterMove(r, 1)}]
    IN RowsByMoves(next, {selectedIndex}, ItemCount)

\* C37: on every list screen, from any selected row, every row of the screen (row 0
\* "Back" among them, through which select leads to the parent screen and from Main
\* to Hidden) can be made the selected row by a finite sequence of moves.
EveryRowReachableByMoves ==
    (currentMenu \in ListScreens /\ ~inputTA) =>
        ReachableRows = 0..(ItemCount - 1)

\* what a key or a turn or click of the encoder makes of st
AfterKeyOrRotary(st) ==
    {settingsUIHandleKey(st, key) : key \in KeyInputs}
        \cup {settingsUIHandleRotary(st, direction) : direction \in {-1, 0, 1}}

\* C38: while the menu is Hidden no key and no rotary event changes the working
\* record, the stored blob or the menu state, whatever screen or capture (an open
\* server field editor included) was active when settingsUIHide was called.
HiddenIgnoresInput ==
    \A hidden \in {settingsUIHide(Cur)} :
        \A st \in AfterKeyOrRotary(hidden) :
            /\ st.settings = settings
            /\ st.store = store
            /\ st.currentMenu = "Hidden"

\* what the settings screen shows when it corresponds to the menu state of st: the
\* list of the current screen, or the text input of the capture that is open
ScreenOf(st) ==
    IF st.currentMenu \in {"WifiAdd", "WifiEdit"} THEN "TextInput"
    ELSE IF st.currentMenu \in {"ServerLocal", "ServerRemote"} /\ st.serverEditField >= 0
         THEN "TextInput"
         ELSE st.currentMenu

\* C39: while the menu is visible the screen that is drawn is the screen of the
\* current menu state; a poll of the scan (settingsUIUpdateWiFiList) that arrives
\* after WifiScan was left does not replace the drawn screen by the list of scan
\* results and does not destroy the text input of an open capture.
DrawnScreenIsCurrent ==
    /\ currentMenu # "Hidden" => drawn = ScreenOf(Cur)
    /\ currentMenu \notin {"Hidden", "WifiScan"} =>
           \A reply \in scanComplete(Cur) :
               \A st \in {settingsUIUpdateWiFiList(Cur, reply)} :
                   /\ st.drawn = drawn
                   /\ st.inputTA = inputTA
                   /\ st.inputText = inputText

(***************************************************************************)
(* The settings store on its own: the working record is written field by   *)
(* field, saved, and loaded at power-up from whatever the flash holds: the *)
(* last save, a blob of another firmware, or a blob with a flipped byte.   *)
(***************************************************************************)
\* offsets probed: the first and last byte of every kind of field, and padding
ProbeOffsets ==
    {OffVersion, OffBrightness, OffBrightness + 1, OffTheme, OffTheme + 3,
     OffWifiNetworks, OffWifiNetworks + MAX_SSID_LEN - 1, OffWifiNetworks + MAX_SSID_LEN,
     OffWifiNetworks + SizeofWiFiNetwork - 1, OffWifiNetworkCount - 1,
     OffWifiNetworkCount, OffWifiAutoConnect, OffWifiAutoConnect + 1,
     OffLocalServer, OffLocalServer + SrvOffPort, OffLocalServer + SrvOffPort + 1,
     OffLocalServer + SrvOffPath, OffLocalServer + SrvOffUsername,
     OffRemoteServer + SrvOffPassword, OffRemoteServer + SrvOffUseSSL,
     OffRemoteServer + SrvOffEnabled, OffPreferRemote, OffSoundEnabled, OffVolume,
     OffHapticEnabled, OffHapticIntensity, OffChecksum - 1}

\* the values a byte b is changed to: the next one and the complement
ProbeValues(b) == {(b + 1) % 256, 255 - b}

\* the bytes StoreCorrupt flips: the version, a padding byte, a text byte, the low
\* byte of a port, a byte of the checksum field
FlipOffsets == {OffVersion, OffBrightness + 1, OffWifiNetworks,
                OffLocalServer + SrvOffPort, OffHapticIntensity, OffChecksum}
FlipValues == {0, 255}

\* the field writes the menu makes to the working record
Edits(s) == {[s EXCEPT !.brightness = 225],
             [s EXCEPT !.localServer.port = 2222]}

StoreLoad == /\ Budget
             /\ \E st \in {settingsInit(Cur)} : Becomes(st)

StoreSave == /\ Budget
             /\ \E st \in {settingsSave(Cur)} : Becomes(st)

StoreReset == /\ Budget
              /\ settings' = settingsReset(settings)
              /\ UNCHANGED <<store, writes, diag>>
              /\ UNCHANGED uiVars
              /\ UNCHANGED cfgVars

StoreEdit == /\ Budget
             /\ settings.version = SETTINGS_VERSION
             /\ \E s \in Edits(settings) : settings' = s
             /\ UNCHANGED <<store, writes, diag>>
             /\ UNCHANGED uiVars
             /\ UNCHANGED cfgVars

\* one byte of the stored blob changes in flash
StoreCorrupt == /\ Budget
                /\ store = Blob(Stamp(store.data))
                /\ \E off \in FlipOffsets, v \in FlipValues :
                       /\ v # GetByte(store.data, off)
                       /\ store' = Blob(PokeByte(store.data, off, v))
                /\ UNCHANGED <<settings, writes, diag>>
                /\ UNCHANGED uiVars
                /\ UNCHANGED cfgVars

\* the flash holds the blob of another firmware: a struct of another size, or the
\* same struct stamped with the previous version
StoreForeign == /\ Budget
                /\ store = Blob(Stamp(store.data))
                /\ store.data.version = SETTINGS_VERSION
                /\ \/ store' = [store EXCEPT !.len = SizeofSettings - 1]
                   \/ store' = Blob(Stamp([store.data EXCEPT
                                              !.version = SETTINGS_VERSION - 1]))
                /\ UNCHANGED <<settings, writes, diag>>
                /\ UNCHANGED uiVars
                /\ UNCHANGED cfgVars

InitStore == \E blob \in InitialStores : Starts(Constructed(blob, 0))

NextStore == StoreLoad \/ StoreSave \/ StoreReset \/ StoreEdit \/ StoreCorrupt
                 \/ StoreForeign

SpecStore == InitStore /\ [][NextStore]_vars

(***************************************************************************)
(* Properties of the store (checked under SpecStore)                       *)
(***************************************************************************)
\* the record a factory reset followed by a save leaves
FactoryDefaults == Stamp(settingsReset(ZeroSettings))

\* a char array of n bytes as its n bytes
Whole(a, n) == [i \in 1..n |-> At(a, i - 1)]

NetBytes(n) ==
    Whole(n.ssid, MAX_SSID_LEN) \o Whole(n.password, MAX_PASS_LEN) \o <<n.enabled>>

ServerBytes(c) ==
    Whole(c.host, MAX_HOST_LEN) \o <<c.port % 256, c.port \div 256>>
        \o Whole(c.path, MAX_PATH_LEN) \o Whole(c.username, MAX_USER_LEN)
        \o Whole(c.password, MAX_USER_LEN) \o <<c.useSSL, c.enabled>>

\* the bytes of the struct before its checksum field, in address order
BytesBeforeChecksum(s) ==
    <<s.version, s.brightness, s.pad[1], s.pad[2]>> \o s.theme
        \o NetBytes(s.wifiNetworks[0]) \o NetBytes(s.wifiNetworks[1])
        \o NetBytes(s.wifiNetworks[2]) \o NetBytes(s.wifiNetworks[3])
        \o NetBytes(s.wifiNetworks[4])
        \o <<s.wifiNetworkCount, s.wifiAutoConnect, s.pad[3]>>
        \o ServerBytes(s.localServer) \o ServerBytes(s.remoteServer)
        \o <<s.preferRemote, s.soundEnabled, s.volume, s.hapticEnabled,
             s.hapticIntensity, s.pad[4], s.pad[5], s.pad[6]>>

RECURSIVE DenseSum(_, _, _)
\* sum of b[i] * i over lo < i <= hi
DenseSum(b, lo, hi) ==
    IF hi <= lo THEN 0
    ELSE IF hi = lo + 1 THEN b[hi] * hi
    ELSE DenseSum(b, lo, (lo + hi) \div 2) + DenseSum(b, (lo + hi) \div 2, hi)

\* the checksum as the sum over every byte before the checksum field (below 2^32,
\* so taking its four bytes is the reduction modulo 2^32), xor 0xDEADBEEF
RefChecksum(s) ==
    LET b == BytesBeforeChecksum(s)
    IN Xor32(U32(DenseSum(b, 0, Len(b))), <<239, 190, 173, 222>>)

\* a stored blob that must not be accepted
BadBlob(b) ==
    \/ b.len # SizeofSettings
    \/ b.data.version # SETTINGS_VERSION
    \/ settingsCalculateChecksum(b.data) # b.data.checksum

\* C1: a load that finds a blob of another size, of another version, or with a
\* checksum that does not match leaves the working record equal to the factory
\* defaults and the store holding exactly the saved defaults, which verify.
LoadRejectsBadBlob ==
    BadBlob(store) =>
        \A st \in {settingsLoad(Cur)} :
            /\ st.settings = FactoryDefaults
            /\ st.store = Blob(FactoryDefaults)
            /\ ~BadBlob(st.store)

\* C1 witness: a load has found a blob whose checksum did not match, and has left the
\* defaults in the working record and in the store
LoadRejectedChecksum ==
    diag = "checksum" /\ settings = FactoryDefaults /\ store = Blob(FactoryDefaults)

\* C2: for a working record of this firmware (made by settingsReset and the field
\* writes of the menu, so carrying the current version), saving it and powering up
\* again gives back the saved record byte for byte, stamped checksum included, by
\* the plain load path, and without a further write of the store.
SaveThenLoad ==
    settings.version = SETTINGS_VERSION =>
        LET saved == settingsSave(Cur)
            loaded == Boot(saved.store, saved.writes)
        IN /\ loaded.settings = saved.settings
           /\ loaded.settings = Stamp(settings)
           /\ loaded.diag = "loaded"
           /\ loaded.writes = saved.writes
           /\ loaded.store = saved.store

\* C2 witness: an edited record has been saved and a load has accepted it
EditedRecordLoaded ==
    /\ diag = "loaded" /\ writes > 0
    /\ store = Blob(settings)
    /\ settings.brightness = 225 /\ settings.localServer.port = 2222

\* C3: the record a save writes verifies (its recomputed checksum is its checksum
\* field), and changing any one byte outside the checksum field makes it fail.
StampVerifies ==
    \A saved \in {settingsSave(Cur).store.data} :
        /\ settingsCalculateChecksum(saved) = saved.checksum
        /\ \A off \in ProbeOffsets :
               \A v \in ProbeValues(GetByte(saved, off)) :
                   settingsCalculateChecksum(PokeByte(saved, off, v)) # saved.checksum

\* C3 witness: the store holds the saved working record with one byte outside the
\* checksum field changed, and it does not verify
OneByteFlipped ==
    /\ settings = Stamp(settings)
    /\ store.len = SizeofSettings /\ store.data # settings
    /\ \E off \in FlipOffsets \ {OffChecksum} :
           PokeByte(store.data, off, GetByte(settings, off)) = settings
    /\ settingsCalculateChecksum(store.data) # store.data.checksum

\* C4: the checksum of a record is the sum of byte[i] * (i + 1) over the bytes before
\* the checksum field, modulo 2^32, xor 0xDEADBEEF, whatever the checksum field holds.
ChecksumIsWeightedSum ==
    \A r \in {settings, store.data} :
        /\ settingsCalculateChecksum(r) = RefChecksum(r)
        /\ \A c \in {U32(0), <<255, 255, 255, 255>>, <<1, 0, 0, 0>>} :
               settingsCalculateChecksum([r EXCEPT !.checksum = c])
                   = settingsCalculateChecksum(r)

\* C4 witness: a working record edited after its last stamp: its checksum field is
\* set and is not the checksum of its bytes
StaleChecksumField ==
    /\ settings.version = SETTINGS_VERSION
    /\ settings.checksum # U32(0)
    /\ settings.checksum # settingsCalculateChecksum(settings)

(***************************************************************************)
(* The network list on its own: networks are appended (saveWiFiNetwork)    *)
(* and deleted (deleteWiFiNetwork, which the menu does not call yet).      *)
(***************************************************************************)
ListBudget == writes < MaxListWrites

ListSsids == {<<KEY_Q>>, <<KEY_7>>, <<KEY_Q, KEY_7>>}

ListAdd == /\ ListBudget
           /\ \E ssid \in ListSsids, password \in Passwords :
                  \E st \in {saveWiFiNetwork(Cur, ssid, password)} : Becomes(st)

ListDelete == /\ ListBudget
              /\ \E index \in -1..MAX_WIFI_NETWORKS :
                     \E st \in {deleteWiFiNetwork(Cur, index)} : Becomes(st)

InitList == \E blob \in InitialStores : Starts(Boot(blob, 0))

NextList == ListAdd \/ ListDelete

SpecList == InitList /\ [][NextList]_vars

\* C12: deleteWiFiNetwork(i) with 0 <= i < wifiNetworkCount takes one off the count,
\* leaves the entries below i, moves every entry above i one slot down, and saves;
\* with i out of range it changes nothing.  A network added and then deleted leaves
\* the count and the entries below the count as they were.
DeleteShiftsDown ==
    LET n == settings.wifiNetworkCount
    IN /\ \A i \in -1..MAX_WIFI_NETWORKS :
              \A st \in {deleteWiFiNetwork(Cur, i)} :
                  IF 0 <= i /\ i < n
                  THEN /\ st.settings.wifiNetworkCount = n - 1
                       /\ \A j \in 0..(i - 1) :
                              st.settings.wifiNetworks[j] = settings.wifiNetworks[j]
                       /\ \A j \in (i + 1)..(n - 1) :
                              st.settings.wifiNetworks[j - 1] = settings.wifiNetworks[j]
                       /\ st.writes = writes + 1
                       /\ st.store = Blob(st.settings)
                  ELSE st = Cur
       /\ n < MAX_WIFI_NETWORKS =>
              \A ssid \in ListSsids, password \in Passwords :
                  \A st \in {deleteWiFiNetwork(saveWiFiNetwork(Cur, ssid, password), n)} :
                      /\ st.settings.wifiNetworkCount = n
                      /\ \A j \in 0..(n - 1) :
                             st.settings.wifiNetworks[j] = settings.wifiNetworks[j]

\* C12 witness: the first network of a full list has been deleted: four are left,
\* and the second network stands in slot 0
FirstNetworkDeleted ==
    /\ settings.wifiNetworkCount = MAX_WIFI_NETWORKS - 1
    /\ settings.wifiNetworks[0].ssid = <<KEY_Q>>
    /\ store = Blob(settings)

\* the blobs made of blob b by the faults of each stage, alone and together: another
\* length, another version (stamped again or not), a changed byte
Faulted(b) ==
    {[len |-> l, data |-> d] :
        l \in {SizeofSettings, SizeofSettings - 1, 0},
        d \in {b.data,
               Stamp([b.data EXCEPT !.version = SETTINGS_VERSION - 1]),
               [b.data EXCEPT !.version = SETTINGS_VERSION - 1],
               PokeByte(b.data, OffBrightness, 255 - b.data.brightness)}}

\* C17: settingsLoad validates size, then version, then checksum, each with its own
\* diagnostic, and reports a blob under the earliest stage it fails: a blob of
\* another size is reported as such whatever its version and checksum, a blob of
\* the right size and another version as such whatever its checksum.
EarliestStageReported ==
    \A b \in Faulted(store) :
        \A st \in {settingsLoad([Cur EXCEPT !.store = b])} :
            /\ b.len # SizeofSettings => st.diag = "size"
            /\ (b.len = SizeofSettings /\ b.data.version # SETTINGS_VERSION) =>
                   st.diag = "version"
            /\ (/\ b.len = SizeofSettings
                /\ b.data.version = SETTINGS_VERSION
                /\ settingsCalculateChecksum(b.data) # b.data.checksum) =>
                   st.diag = "checksum"
            /\ ~BadBlob(b) => st.diag = "loaded" /\ st.settings = b.data
            /\ st.diag # "loaded" => st.settings = FactoryDefaults

\* C17 witness: a load is about to find a blob of the right size that fails both
\* the version and the checksum stage
VersionAndChecksumBad ==
    /\ Budget
    /\ store.len = SizeofSettings
    /\ store.data.version # SETTINGS_VERSION
    /\ settingsCalculateChecksum(store.data) # store.data.checksum

\* C18: settingsReset leaves the same factory record whatever the working record
\* held before: every field, the padding included, is set again, the version is
\* SETTINGS_VERSION and the checksum verifies; a second reset changes nothing.
ResetGivesFactoryRecord ==
    \A r \in {settingsReset(settings)} :
        /\ r = settingsReset(ZeroSettings)
        /\ Stamp(r) = FactoryDefaults
        /\ r.version = SETTINGS_VERSION
        /\ r.pad = ZeroSettings.pad
        /\ \A i \in 1..(MAX_WIFI_NETWORKS - 1) : r.wifiNetworks[i] = ZeroNetwork
        /\ RefChecksum(r) = r.checksum
        /\ settingsReset(r) = r

\* C18 witness: the working record has been reset after an edit was saved; the
\* stored blob still holds the edit
ResetNotStored ==
    /\ settings = settingsReset(ZeroSettings)
    /\ store.len = SizeofSettings
    /\ store.data.brightness = 225
    /\ store.data.checksum = settingsCalculateChecksum(store.data)

(***************************************************************************)
(* The configuration loader on its own: the sketch mounts the file system  *)
(* and opens the secure store (begin), loads the main document at start    *)
(* and on the serial command "reload", loads a gateway profile, stores     *)
(* Wi-Fi credentials; files are replaced from outside, and a call that     *)
(* traps restarts the device.                                              *)
(***************************************************************************)

\* attributes and nodes are written as maps from names
Node(name, text) == name :> text

\* documents at the main path
MainFull ==
    Xml("tloraTerminalConfig",
        Node("wifi.ssid", TxtLan) @@ Node("wifi.password", TxtSecret)
        @@ Node("gateway.host", TxtHome) @@ Node("gateway.port", TxtNumber)
        @@ Node("gateway.useSsl", TxtTrue)
        @@ Node("gateway.connectTimeoutMs", TxtNumberSpaced)
        @@ Node("terminal.cols", TxtNumber) @@ Node("terminal.rows", TxtNumberSpaced)
        @@ Node("terminal.fontSize", TxtNumber)
        @@ Node("input.keyboard.keymapFile", TxtAltKeymap)
        @@ Node("input.keyboard.debounceMs", TxtNumberSpaced)
        @@ Node("input.encoder.pressSendsEnter", TxtFalse)
        @@ Node("haptics.enabled", TxtFalse) @@ Node("haptics.bellMs", TxtNumber)
        @@ Node("ui.themeFile", TxtAltTheme)
        @@ Node("logging.serialBaud", TxtNumber)
        @@ Node("logging.debugKeyboard", TxtTrue))

MainSparse ==
    Xml("tloraTerminalConfig",
        Node("gateway.port", TxtNumberSpaced) @@ Node("ui.statusBarEnabled", TxtFalse))

MainOdd ==
    Xml("tloraTerminalConfig",
        Node("gateway.port", TxtNoNumber) @@ Node("gateway.useSsl", TxtTrueSpaced)
        @@ Node("terminal.cols", TxtNumber) @@ Node("terminal.rows", TxtNoNumber)
        @@ Node("input.keyboard.debounceMs", TxtNoNumber)
        @@ Node("haptics.enabled", TxtTrueUpper)
        @@ Node("haptics.keypressMs", TxtNumberThenText)
        @@ Node("ui.themeFile", Null)
        @@ Node("logging.serialBaud", TxtNoNumber)
        @@ Node("logging.debugWebSocket", Null))

MainWrongRoot == Xml("config", Node("gateway.port", TxtNumber))

\* documents that do not give a configuration, and those that do
BrokenDocs == {EmptyFile, InvalidXml, MainWrongRoot}
MainDocs == {MainFull, MainSparse, MainOdd}

\* gateway profiles
ProfileFull ==
    Xml("gatewayProfile",
        Node("gateway.host", TxtLan) @@ Node("gateway.port", TxtNumberSpaced)
        @@ Node("gateway.path", TxtAltKeymap) @@ Node("gateway.useSsl", TxtTrue)
        @@ Node("gateway.sni", TxtHome))

ProfileSparse == Xml("gatewayProfile", Node("gateway.host", TxtHome))

ProfileOdd ==
    Xml("gatewayProfile", Node("gateway.port", TxtNoNumber) @@ Node("gateway.useSsl", Null))

ProfileDocs == {ProfileFull, ProfileSparse, ProfileOdd}

ProfileWrongRoot == Xml("gateway", Node("gateway.host", TxtLan))

\* themes
ThemeFull ==
    Xml("theme",
        Node("theme.name", TxtLan)
        @@ Node("theme.colors.bg", Node("r", TxtNumber) @@ Node("g", TxtNumberSpaced))
        @@ Node("theme.colors.err", Node("b", TxtNoNumber))
        @@ Node("theme.cursor.style", TxtHome) @@ Node("theme.cursor.blink", TxtFalse)
        @@ Node("theme.statusBar.heightPx", TxtNumber)
        @@ Node("theme.statusBar.showWifi", TxtFalse))

ThemeOdd ==
    Xml("theme",
        Node("theme.statusBar.heightPx", TxtNoNumber)
        @@ Node("theme.selectionInvert", TxtTrueUpper))

ThemeDocs == {ThemeFull, ThemeOdd}

\* keymaps
KeymapFull ==
    Xml("keymap",
        Node("keymap.name", TxtLan)
        @@ Node("keymap.keys",
                <<Node("id", TxtHome) @@ Node("normal", TxtSecret) @@ Node("code", TxtNumber),
                  Node("id", TxtLan)>>)
        @@ Node("keymap.modifiers", <<Node("id", TxtLan) @@ Node("mode", TxtHome)>>))

KeymapBare == Xml("keymap", Node("keymap.keys", <<Node("id", TxtSecret)>>))

KeymapDocs == {KeymapFull, KeymapBare}

\* the file system files with the document xml at path, and without a file there
Install(files, path, xml) == [files EXCEPT !.files = (path :> xml) @@ @]
Remove(files, path) ==
    [files EXCEPT !.files = [p \in DOMAIN files.files \ {path} |-> files.files[p]]]

\* the profile names asked for
ProfileNames == {TxtLan, TxtHome}

\* the file systems the device is flashed with: the main document refers to the
\* theme "t.xml" and the keymap "/k.xml" or leaves the compiled-in files in place
FlashedWith(main, theme, keymap, profile) ==
    Install(Install(Install(Install(Install(Install(NoFiles,
        ProfilePath(TxtLan), profile), DefaultKeymapFile, keymap), TxtAltKeymap, keymap),
        DefaultThemeFile, theme), WithSlash(TxtAltTheme), theme), MainConfigPath, main)

FileSystems ==
    {NoFiles,
     FlashedWith(MainFull, ThemeFull, KeymapFull, ProfileFull),
     FlashedWith(MainOdd, ThemeOdd, KeymapBare, ProfileOdd),
     FlashedWith(InvalidXml, InvalidXml, EmptyFile, ProfileSparse)}

\* what an uninitialised tmp holds and what strcmp on the null pointer does
Undefined == [junk : {0, 300}, nullCmp : {"crash", "true", "false"}]

\* the calls below need a loader that has not trapped
Running == ret # "crash"

CfgBegin ==
    /\ Running
    /\ \E mounted \in BOOLEAN, opened \in BOOLEAN :
          CfgBecomes(begin(CfgCur, mounted, opened))

CfgLoadConfig ==
    /\ Running
    /\ \E ub \in Undefined : CfgBecomes(loadConfig(CfgCur, MainConfigPath, ub))

CfgLoadGatewayProfile ==
    /\ Running
    /\ \E profileName \in ProfileNames, ub \in Undefined :
          CfgBecomes(loadGatewayProfile(CfgCur, profileName, ub))

CfgSaveWifi ==
    /\ Running
    /\ CfgBecomes(saveWifiToNvs(CfgCur, TxtHome, TxtSecret))

CfgClearNvs ==
    /\ Running
    /\ CfgBecomes(clearNvs(CfgCur))

\* the main document is replaced from outside
CfgUpload ==
    /\ Running
    /\ \E xml \in {MainSparse, MainWrongRoot} :
          CfgBecomes([CfgCur EXCEPT !.fs = Install(fs, MainConfigPath, xml)])

\* the device restarts, after a trap or to apply stored credentials: the loader is
\* constructed again, the secure store and the files stay
CfgRestart ==
    /\ CfgBecomes([CfgCur EXCEPT !.configLoader = ConstructedLoader,
                                 !.fs.mounted = FALSE, !.ret = "none"])

InitConfig ==
    /\ MenuStarts(Constructed(NoBlob, 0))
    /\ configLoader = ConstructedLoader
    /\ nvs = NoNvs
    /\ fs \in FileSystems
    /\ ret = "none"

NextConfig ==
    \/ CfgBegin
    \/ CfgLoadConfig
    \/ CfgLoadGatewayProfile
    \/ CfgSaveWifi
    \/ CfgClearNvs
    \/ CfgUpload
    \/ CfgRestart

SpecConfig == InitConfig /\ [][NextConfig]_vars

(***************************************************************************)
(* Properties of the configuration loader (checked under SpecConfig)       *)
(***************************************************************************)

\* the file systems that differ from files in the main document only: it is
\* missing, or it is one of docs
WithMainDocument(files, docs) ==
    {Remove(files, MainConfigPath)} \cup {Install(files, MainConfigPath, xml) : xml \in docs}

\* the main document of files gives no tree with the root the loader looks for
Unparsable(files) ==
    \/ isEmpty(readFile(files, MainConfigPath))
    \/ ~ParsesWithRoot(readFile(files, MainConfigPath), "tloraTerminalConfig")

\* C22: loadConfig never fails: whether the main document is absent, empty,
\* syntactically invalid, valid with the wrong root element or valid, the call
\* returns true and marks the configuration as loaded, and when the document is
\* absent or unparsable no field of the configuration changes.
LoadConfigNeverFails ==
    Running =>
        \A files \in WithMainDocument(fs, BrokenDocs \cup {MainFull, MainSparse}),
           ub \in Undefined :
            \A cs \in {loadConfig([CfgCur EXCEPT !.fs = files], MainConfigPath, ub)} :
                /\ cs.ret = "true"
                /\ cs.configLoader.loaded
                /\ Unparsable(files) => cs.configLoader.config = configLoader.config

\* C23: after loadConfig, whether the main document is absent, unparsable, valid
\* without a wifi section or valid with wifi credentials: if the secure store is
\* open and holds a non-empty wifi ssid, the configuration's wifi ssid and password
\* are those of the secure store.
StoredWifiOverrides ==
    (Running /\ configLoader.nvsOpen /\ nvs.wifi_ssid # <<>>) =>
        \A files \in WithMainDocument(fs, BrokenDocs \cup {MainFull, MainSparse}),
           ub \in Undefined :
            \A cs \in {loadConfig([CfgCur EXCEPT !.fs = files], MainConfigPath, ub)} :
                /\ cs.configLoader.config["wifi.ssid"] = nvs.wifi_ssid
                /\ cs.configLoader.config["wifi.password"] = nvs.wifi_pass

\* the texts of a node of each kind that parse: a string (or none), a boolean
\* literal, a decimal number
ParsableTexts(kind) ==
    CASE kind = "S" -> {Null, TxtHome}
      [] kind = "B" -> {TxtTrue, TxtFalse}
      [] OTHER -> {TxtNumber, TxtNumberSpaced, TxtBigNumber}

\* the number of text is one the field can hold: gateway.port, cols, rows and
\* scrollbackLines are uint16_t, font size, debounceMs, rotateStepLines,
\* keypressMs and bellMs are uint8_t, the others uint32_t
Fits(kind, text) ==
    CASE kind \in {"P16", "T16"} -> ToUnsigned(text).value < 65536
      [] kind = "T8" -> ToUnsigned(text).value < 256
      [] OTHER -> TRUE

\* what the document says a field is
DocumentValue(step, text) ==
    CASE step.kind = "S" -> IF text = Null THEN <<>> ELSE text
      [] step.kind = "B" -> text = TxtTrue
      [] OTHER -> ToUnsigned(text).value

\* the main documents with one node of parsable content
OneNodeDocs ==
    UNION {{Xml("tloraTerminalConfig", Node(MainSteps[i].field, text)) :
               text \in ParsableTexts(MainSteps[i].kind)} : i \in 1..Len(MainSteps)}

\* every number of the document is one its field can hold
AllFit(xml) ==
    \A i \in 1..Len(MainSteps) :
        MainSteps[i].field \in DOMAIN xml.nodes =>
            Fits(MainSteps[i].kind, xml.nodes[MainSteps[i].field])

\* the secure store is open and holds credentials
StoreHoldsWifi == configLoader.nvsOpen /\ nvs.wifi_ssid # <<>>

\* what the secure store gives for a wifi field
StoredWifi(field) == IF field = "wifi.ssid" THEN nvs.wifi_ssid ELSE nvs.wifi_pass

\* config is the defaults overlaid with the nodes of xml, field by field; with
\* stored, the wifi fields are those of a secure store that holds credentials
OverlaysFieldwise(xml, config, stored) ==
    \A i \in 1..Len(MainSteps) :
        config[MainSteps[i].field] =
            IF stored /\ StoreHoldsWifi /\ MainSteps[i].field \in {"wifi.ssid", "wifi.password"}
            THEN StoredWifi(MainSteps[i].field)
            ELSE IF MainSteps[i].field \in DOMAIN xml.nodes
            THEN DocumentValue(MainSteps[i], xml.nodes[MainSteps[i].field])
            ELSE Defaults[MainSteps[i].field]

\* loadConfig on a loader that has its defaults and a mounted file system overlays
\* each of docs field by field
FreshLoadOverlays(docs, stored) ==
    (Running /\ fs.mounted /\ configLoader.config = ConstructedLoader.config) =>
        \A xml \in docs, ub \in Undefined :
            \A cs \in {loadConfig([CfgCur EXCEPT !.fs = Install(fs, MainConfigPath, xml)],
                                  MainConfigPath, ub)} :
                cs.ret = "true" /\ OverlaysFieldwise(xml, cs.configLoader.config, stored)

\* C24 as stated: for the constructed loader and every well-formed main document
\* with parsable content, after loadConfig each field whose node is present holds
\* the document's value and each field whose node is absent holds its default.
DocumentOverlaysDefaults ==
    FreshLoadOverlays(OneNodeDocs \cup {MainFull, MainSparse}, FALSE)

\* C24: for the constructed loader and every well-formed main document whose
\* content parses and whose numbers fit the type of their field, after loadConfig
\* each field whose node is present holds exactly the document's value and each
\* field whose node is absent holds its compiled-in default, whatever other nodes
\* the document has; the wifi ssid and password are those of the secure store
\* when it is open and holds an ssid.
FittingDocumentOverlaysDefaults ==
    FreshLoadOverlays({xml \in OneNodeDocs \cup {MainFull, MainSparse} : AllFit(xml)}, TRUE)

\* the constructed loader has loaded a document with some nodes: those fields hold
\* the document's values, the others their defaults
FullDocumentLoaded ==
    /\ readFile(fs, MainConfigPath) = MainFull
    /\ configLoader.loaded
    /\ ~configLoader.nvsOpen
    /\ ret = "true"
    /\ OverlaysFieldwise(MainFull, configLoader.config, TRUE)
    /\ configLoader.config["gateway.port"] = 42
    /\ configLoader.config["gateway.path"] = DefaultGatewayPath

\* cs with the configuration as the constructor leaves it
FromDefaults(cs) == [cs EXCEPT !.configLoader.config = ConstructedLoader.config]

\* C25: every loadConfig starts from the compiled-in defaults: the configuration
\* it leaves is the one the same call leaves on a loader whose configuration is
\* the defaults (it depends on the documents and the secure store only), and a
\* field of the main document that the document omits holds its default.
LoadStartsFromDefaults ==
    Running =>
        \A files \in WithMainDocument(fs, {MainFull, MainSparse}), ub \in Undefined :
            \A cs \in {loadConfig([CfgCur EXCEPT !.fs = files], MainConfigPath, ub)} :
                /\ cs.configLoader.config =
                      loadConfig(FromDefaults([CfgCur EXCEPT !.fs = files]),
                                 MainConfigPath, ub).configLoader.config
                /\ \A f \in FieldsOf(MainSteps) \ {"wifi.ssid", "wifi.password"} :
                      (~Unparsable(files)
                       /\ f \notin DOMAIN readFile(files, MainConfigPath).nodes)
                          => cs.configLoader.config[f] = Defaults[f]

\* the steps that read an unsigned integer
UnsignedSteps(steps) ==
    {steps[i] : i \in {j \in 1..Len(steps) : steps[j].kind \in {"U32", "P16", "T16", "T8"}}}

\* texts that do not parse as an unsigned integer
UnparsableNumbers == {Null, TxtNoNumber}

\* C26: for every unsigned-integer field of the main document and of the theme
\* document, when the node is present but its text does not parse as an unsigned
\* integer, the field keeps exactly the value it had before the parse, also when a
\* number was parsed for the field before it.
UnparsableNumberKeepsField ==
    Running =>
        \A text \in UnparsableNumbers, ub \in Undefined :
            /\ \A step \in UnsignedSteps(MainSteps) :
                  parseMainConfig(configLoader.config,
                                  Xml("tloraTerminalConfig", Node(step.field, text)),
                                  ub).config[step.field]
                      = configLoader.config[step.field]
            /\ \A step \in UnsignedSteps(ThemeSteps) :
                  parseTheme(configLoader.config, Xml("theme", Node(step.field, text)),
                             ub).config[step.field]
                      = configLoader.config[step.field]
            /\ parseMainConfig(configLoader.config,
                               Xml("tloraTerminalConfig",
                                   Node("terminal.cols", TxtNumber)
                                   @@ Node("terminal.rows", text)),
                               ub).config["terminal.rows"]
                  = configLoader.config["terminal.rows"]

\* the steps that read a boolean
BooleanSteps(steps) == {steps[i] : i \in {j \in 1..Len(steps) : steps[j].kind = "B"}}

RECURSIVE DropTrailingSpace(_)
DropTrailingSpace(s) ==
    IF s # <<>> /\ IsSpace(s[Len(s)]) THEN DropTrailingSpace(SubSeq(s, 1, Len(s) - 1)) ELSE s

\* the text of a node without the white space around it; no text is the empty text
Trimmed(text) ==
    IF text = Null THEN <<>> ELSE DropTrailingSpace(SkipWhiteSpace(text))

\* what a boolean node can hold
BooleanTexts == {Null, TxtTrue, TxtTrueSpaced, TxtTrueUpper, TxtFalse, TxtNoNumber}

\* parsed is a parse that ran to its end and left field true exactly for the
\* literal "true"
ReadsTrimmedTrue(parsed, field, text) ==
    /\ ~parsed.crashed
    /\ parsed.ok
    /\ parsed.config[field] = (Trimmed(text) = TxtTrue)

\* C27: for every boolean field whose node is present in a main document, a
\* gateway profile or a theme, the field is set to true if and only if the node's
\* text without the white space around it is "true", case-sensitively; any other
\* content, and a node without text, sets it to false, and the parse goes on.
BooleanIsTrimmedTrue ==
    Running =>
        \A text \in BooleanTexts, ub \in Undefined :
            /\ \A step \in BooleanSteps(MainSteps) :
                  ReadsTrimmedTrue(
                      parseMainConfig(configLoader.config,
                                      Xml("tloraTerminalConfig", Node(step.field, text)), ub),
                      step.field, text)
            /\ \A step \in BooleanSteps(ProfileSteps) :
                  ReadsTrimmedTrue(
                      parseGatewayProfile(configLoader.config,
                                          Xml("gatewayProfile", Node(step.field, text)), ub),
                      step.field, text)
            /\ \A step \in BooleanSteps(ThemeSteps) :
                  ReadsTrimmedTrue(
                      parseTheme(configLoader.config, Xml("theme", Node(step.field, text)),
                                 ub),
                      step.field, text)

\* cs is what a successful loadGatewayProfile of the profile xml may leave of the
\* current loader: no field but the gateway's host, port, path, useSsl and sni
\* differs, and of these only the ones the profile has
ChangesProfileFieldsOnly(cs, xml) ==
    /\ \A f \in DOMAIN configLoader.config :
          (f \notin FieldsOf(ProfileSteps) \/ f \notin DOMAIN xml.nodes)
              => cs.configLoader.config[f] = configLoader.config[f]
    /\ cs.configLoader.loaded = configLoader.loaded
    /\ cs.configLoader.nvsOpen = configLoader.nvsOpen
    /\ cs.nvs.wifi_ssid = nvs.wifi_ssid
    /\ cs.nvs.wifi_pass = nvs.wifi_pass

\* the name the secure store holds after a successful loadGatewayProfile
StoredName(always, profileName) ==
    IF always \/ configLoader.nvsOpen THEN profileName ELSE nvs.last_profile

\* each profile document under each name: a load that succeeds changes the
\* profile's fields only and leaves the stored name as said
ProfileLoads(always) ==
    Running =>
        \A profileName \in ProfileNames, xml \in ProfileDocs, ub \in Undefined :
            \A cs \in {loadGatewayProfile(
                          [CfgCur EXCEPT !.fs = Install(fs, ProfilePath(profileName), xml)],
                          profileName, ub)} :
                cs.ret = "true" =>
                    /\ ChangesProfileFieldsOnly(cs, xml)
                    /\ cs.nvs.last_profile = StoredName(always, profileName)

\* C28 as stated: a successful loadGatewayProfile(name) changes no field other
\* than gateway host, port, path, useSsl and sni, changes only those present in
\* the profile, and stores name as the last-used profile in the secure store.
ProfileChangesGatewayAndStoresName == ProfileLoads(TRUE)

\* C28: a successful loadGatewayProfile(name) changes no field other than gateway
\* host, port, path, useSsl and sni, changes only those present in the profile,
\* and, when the secure store is open, stores name as the last-used profile; when
\* the store is not open the stored name stays as it is.
ProfileChangesGatewayAndStoresNameIfOpen == ProfileLoads(FALSE)

\* a profile was loaded with the secure store open
ProfileLoadedAndStored ==
    /\ ret = "true"
    /\ configLoader.nvsOpen
    /\ nvs.last_profile = TxtLan
    /\ readFile(fs, ProfilePath(TxtLan)) = ProfileFull
    /\ configLoader.config["gateway.host"] = TxtLan
    /\ configLoader.config["gateway.sni"] = TxtHome
    /\ configLoader.config["gateway.connectTimeoutMs"] = Defaults["gateway.connectTimeoutMs"]

\* the file systems that differ from files in the document at path only: it is
\* missing, or it is one of docs
WithDocumentAt(files, path, docs) ==
    {Remove(files, path)} \cup {Install(files, path, xml) : xml \in docs}

\* C29: when the profile document is absent, empty, syntactically invalid or
\* lacks the root element gatewayProfile, loadGatewayProfile returns false and
\* leaves the configuration, the loader and the secure store, with the stored
\* last-used profile, as they were.
BrokenProfileChangesNothing ==
    Running =>
        \A profileName \in ProfileNames, ub \in Undefined :
            \A files \in WithDocumentAt(fs, ProfilePath(profileName),
                                        {EmptyFile, InvalidXml, ProfileWrongRoot}) :
                \A cs \in {loadGatewayProfile([CfgCur EXCEPT !.fs = files], profileName, ub)} :
                    /\ cs.ret = "false"
                    /\ cs.configLoader = configLoader
                    /\ cs.nvs = nvs

\* a profile was loaded and stored, and a later load of a profile that is not
\* there has returned false
MissingProfileRefused ==
    /\ ret = "false"
    /\ fs.mounted
    /\ ~Unparsable(fs)
    /\ configLoader.nvsOpen
    /\ readFile(fs, ProfilePath(TxtHome)) = EmptyFile
    /\ nvs.last_profile = TxtLan
    /\ configLoader.config["gateway.host"] = TxtLan

\* the fields of the theme and of the keymap
ThemeFields == FieldsOf(ThemeSteps)
KeymapFields == DOMAIN EmptyKeymap

\* the paths a theme (keymap) file name of the documents resolves to
ThemePaths == {DefaultThemeFile, WithSlash(TxtAltTheme)}
KeymapPaths == {DefaultKeymapFile, WithSlash(TxtAltKeymap)}

\* stands for the file that is not there
NoFile == [kind |-> "absent", root |-> "", nodes |-> <<>>]

RECURSIVE InstallAt(_, _, _)
\* files with xml at every path of paths, or with no file there for xml = NoFile
InstallAt(files, paths, xml) ==
    IF paths = {} THEN files
    ELSE LET path == CHOOSE q \in paths : TRUE
             rest == InstallAt(files, paths \ {path}, xml)
         IN IF xml = NoFile THEN Remove(rest, path) ELSE Install(rest, path, xml)

\* a theme (keymap) document that is absent, empty, invalid or has another root
BrokenThemes == {NoFile, EmptyFile, InvalidXml, KeymapFull}
BrokenKeymaps == {NoFile, EmptyFile, InvalidXml, ThemeFull}

\* loadConfig of the current loader on the file system files
Reloaded(files, ub) == loadConfig([CfgCur EXCEPT !.fs = files], MainConfigPath, ub)

\* the theme (keymap) document was read into the configuration
ThemeTaken(config) ==
    config["theme.name"] = TxtLan /\ config["theme.cursor.style"] = TxtHome
KeymapTaken(config) ==
    config["keymap.name"] = TxtLan /\ Len(config["keymap.keys"]) = 2

\* a secondary document that cannot be used leaves its fields and the success
\* of loadConfig as they are
BrokenSecondaryKeepsFields(files, ub) ==
    /\ \A xml \in BrokenThemes :
          \A cs \in {Reloaded(InstallAt(files, ThemePaths, xml), ub)} :
              /\ cs.ret = "true"
              /\ \A f \in ThemeFields : cs.configLoader.config[f] = configLoader.config[f]
    /\ \A xml \in BrokenKeymaps :
          \A cs \in {Reloaded(InstallAt(files, KeymapPaths, xml), ub)} :
              /\ cs.ret = "true"
              /\ \A f \in KeymapFields : cs.configLoader.config[f] = configLoader.config[f]

\* with a theme and a keymap in place, loadConfig reads each whose file name in the
\* resulting configuration is not empty
SecondaryAttempted(files, ub) ==
    \A cs \in {Reloaded(InstallAt(InstallAt(files, ThemePaths, ThemeFull),
                                  KeymapPaths, KeymapFull), ub)} :
        /\ cs.configLoader.config["ui.themeFile"] # <<>> => ThemeTaken(cs.configLoader.config)
        /\ cs.configLoader.config["input.keyboard.keymapFile"] # <<>>
              => KeymapTaken(cs.configLoader.config)

\* C30: whenever the resolved themeFile (keymapFile) is not empty, loadConfig
\* makes the theme (keymap) pass; when that document is absent, empty, invalid or
\* has the wrong root, every theme (keymap) field, the key and modifier lists
\* included, keeps its value and loadConfig still returns true.
SecondaryPassAttemptedAndHarmless ==
    (Running /\ fs.mounted) =>
        \A files \in WithMainDocument(fs, {EmptyFile, MainFull, MainSparse}),
           ub \in Undefined :
            SecondaryAttempted(files, ub) /\ BrokenSecondaryKeepsFields(files, ub)

====
